---------------------------- MODULE Spec2Model ----------------------------
(***************************************************************************)
(* Model of the binary waveform / PDW codec of pyarbtools/instruments.py.  *)
(*                                                                         *)
(*   WrapSpec, WrapFairSpec : wraparound_calc, one loop iteration per step *)
(*   IqSpec                 : iq_wfm_combiner of the four IQ instruments   *)
(*   PdwSpec                : bin_pdw_builder / bin_pdw_file_builder of    *)
(*                            AnalogUXG and VectorUXG, byte for byte       *)
(*   BldSpec                : one call of a PDW builder (AnalogUXG format  *)
(*                            1, VectorUXG format 1 and format 3)          *)
(*   FpSpec                 : convert_to_floating_point and closest_m_2_n  *)
(***************************************************************************)
EXTENDS Integers, Sequences, FiniteSets, TLC

VARIABLES
    \* wraparound_calc(length, gran, minLen)
    pc, length, gran, minLen, temp, repeats,
    \* iq_wfm_combiner(i, q) of instrument class instr
    instr, iData, qData, wfm, combStatus,
    \* bin_pdw_file_builder(pdwList) of UXG class uxg
    uxg, pdwList, pdwFile, fbStatus,
    \* one PDW builder called with the parameters params
    builder, params, pdw, bldStatus,
    \* convert_to_floating_point(fpVal, fpOffset, fpMantBits, fpExpBits) and
    \* closest_m_2_n(cmX, cmBits, _), closest_m_2_n(cmY, cmBits, _)
    fpFun, fpVal, fpOffset, fpMantBits, fpExpBits, fpResult, fpStatus,
    cmX, cmY, cmBits, cmResX, cmResY,
    \* chirp_closest_m_2_n(chirpRate): the exponent and mantissa closest_m_2_n
    \* gave it, and its output
    chirpArg, chirpEM, chirpOut,
    \* bin_freqPhaseCodingSingleEntry(*fpcArgs)
    fpcArgs, fpcOut, fpcStatus,
    \* an M8190A object, the last of set_resolution / set_fs called on it and
    \* how the call ended
    awg, awgCall, awgStatus,
    \* one call of download_wfm or check_wfm: the object it is called on, its
    \* arguments, the commands sent to the instrument, what it returned and
    \* how it ended
    dlDev, dlCall, dlLog, dlOut, dlStatus

wrapVars == <<pc, length, gran, minLen, temp, repeats>>
iqVars   == <<instr, iData, qData, wfm, combStatus>>
pdwVars  == <<uxg, pdwList, pdwFile, fbStatus>>
bldVars  == <<builder, params, pdw, bldStatus>>
fpVars   == <<fpFun, fpVal, fpOffset, fpMantBits, fpExpBits, fpResult, fpStatus,
              cmX, cmY, cmBits, cmResX, cmResY, chirpArg, chirpEM, chirpOut>>
fpcVars  == <<fpcArgs, fpcOut, fpcStatus>>
resVars  == <<awg, awgCall, awgStatus>>
dlVars   == <<dlDev, dlCall, dlLog, dlOut, dlStatus>>
laterVars == <<fpcVars, resVars, dlVars>>
vars     == <<wrapVars, iqVars, pdwVars, bldVars, fpVars, laterVars>>

(***************************************************************************)
(* Bounds of the exploration.                                              *)
(***************************************************************************)
MaxLen    == 6
MaxGran   == 6
MaxMinLen == 8
MaxIqLen  == 2
MaxPdws   == 2
MaxFs     == 3
MaxWfmLen == 2

InitWrapVars ==
    /\ pc = "idle" /\ length = 0 /\ gran = 1 /\ minLen = 0
    /\ temp = 0 /\ repeats = 0

InitIqVars ==
    /\ instr = "none" /\ iData = <<>> /\ qData = <<>>
    /\ wfm = <<>> /\ combStatus = "idle"

InitPdwVars ==
    /\ uxg = "none" /\ pdwList = <<>> /\ pdwFile = <<>> /\ fbStatus = "idle"

InitBldVars ==
    /\ builder = "none" /\ params = [operation |-> 0]
    /\ pdw = [ok |-> TRUE, words |-> <<>>] /\ bldStatus = "idle"

InitFpVars ==
    /\ fpFun = "none" /\ fpVal = [n |-> 1, d |-> 1] /\ fpOffset = 0
    /\ fpMantBits = 1 /\ fpExpBits = 1 /\ fpResult = 0 /\ fpStatus = "idle"
    /\ cmX = [n |-> 0, d |-> 1, x |-> 0] /\ cmY = [n |-> 0, d |-> 1, x |-> 0]
    /\ cmBits = 1
    /\ cmResX = <<0, 0>> /\ cmResY = <<0, 0>>
    /\ chirpArg = [m |-> 0, x |-> 0] /\ chirpEM = <<0, 0>> /\ chirpOut = 0

InitFpcVars ==
    /\ fpcArgs = [onOffState |-> 0, numBitsPerSubpulse |-> 1, codingType |-> 0,
                  stateMapping |-> <<0, 180>>, hexPatternString |-> <<>>,
                  comment |-> <<>>]
    /\ fpcOut = <<>> /\ fpcStatus = "idle"

\* An M8190A constructed on an instrument in 'wsp' at the lowest sample rate,
\* and no call of download_wfm or check_wfm yet
InitLaterVars ==
    /\ InitFpcVars
    /\ awg = [cls |-> "M8190A", res |-> <<"w", "s", "p">>,
              clkSrc |-> <<"i", "n", "t">>, fs |-> 48, bbfs |-> 48,
              gran |-> 64, minLen |-> 320, binMult |-> 2047, binShift |-> 4,
              intFactor |-> 1, idleGran |-> 0]
    /\ awgCall = [fn |-> "__init__", arg |-> <<>>, cmd |-> "none"]
    /\ awgStatus = "returned"
    /\ dlDev = [cls |-> "none"] /\ dlCall = [fn |-> "none"]
    /\ dlLog = <<>> /\ dlOut = <<>> /\ dlStatus = "idle"

(***************************************************************************)
(* wraparound_calc                                                         *)
(***************************************************************************)
\* The concrete triple of the spec's scenario, explored next to the small
\* triples.
ScenarioTriple == <<100, 64, 320>>

WrapInputs ==
    ((0 .. MaxLen) \X (1 .. MaxGran) \X (0 .. MaxMinLen)) \cup {ScenarioTriple}

\* The while condition of wraparound_calc.
WhileCond_flipped(t, g, m) == (t % g # 0) /\ (t < m)

WhileCond(t, g, m) == (t % g # 0) \/ (t < m)

\* For length >= 1 the least repeat count is below gran + minLen + 1, so this
\* cap on the explored iterations binds only when the loop cannot end.
RepeatCap == gran + minLen + 1

\* repeats = 1; temp = length
wraparound_calc_call ==
    /\ pc = "idle"
    /\ \E in \in WrapInputs :
          /\ length' = in[1]
          /\ gran' = in[2]
          /\ minLen' = in[3]
          /\ temp' = in[1]
    /\ repeats' = 1
    /\ pc' = "while"
    /\ UNCHANGED <<iqVars, pdwVars, bldVars, fpVars, laterVars>>

\* one iteration: temp += length; repeats += 1
wraparound_calc_iterate ==
    /\ pc = "while"
    /\ WhileCond(temp, gran, minLen)
    /\ repeats < RepeatCap
    /\ temp' = temp + length
    /\ repeats' = repeats + 1
    /\ UNCHANGED <<pc, length, gran, minLen, iqVars, pdwVars, bldVars, fpVars, laterVars>>

\* return repeats
wraparound_calc_return ==
    /\ pc = "while"
    /\ ~WhileCond(temp, gran, minLen)
    /\ pc' = "return"
    /\ UNCHANGED <<length, gran, minLen, temp, repeats, iqVars, pdwVars, bldVars, fpVars, laterVars>>

WrapInit == InitWrapVars /\ InitIqVars /\ InitPdwVars /\ InitBldVars /\ InitFpVars /\ InitLaterVars

WrapNext ==
    \/ wraparound_calc_call
    \/ wraparound_calc_iterate
    \/ wraparound_calc_return

WrapSpec == WrapInit /\ [][WrapNext]_vars

\* The interpreter always executes the next statement of a running call.
WrapFairSpec == WrapSpec /\ WF_vars(WrapNext)

Satisfies(r, l, g, m) == ((r * l) % g = 0) /\ (r * l >= m)

\* C1: for length >= 1, gran >= 1, minLen >= 0 the call terminates and the
\* count it returns is the smallest positive r with (r*length) % gran = 0 and
\* r*length >= minLen; it is 1 when length already satisfies both, and 16 for
\* (100, 64, 320).
C1_ReturnsLeast ==
    (pc = "return" /\ length >= 1) =>
        /\ repeats >= 1
        /\ Satisfies(repeats, length, gran, minLen)
        /\ \A r \in 1 .. (repeats - 1) : ~Satisfies(r, length, gran, minLen)
        /\ (Satisfies(1, length, gran, minLen) => repeats = 1)
        /\ (<<length, gran, minLen>> = ScenarioTriple => repeats = 16 /\ temp = 1600)

C1_Terminates == (pc = "while" /\ length >= 1) ~> (pc = "return")

C1_LeastRepeats == []C1_ReturnsLeast /\ C1_Terminates

C1_Witness ==
    pc = "return" /\ <<length, gran, minLen>> = ScenarioTriple /\ repeats = 16

\* C2: a call with length = 0 (gran >= 1, minLen >= 1) ends by failing with an
\* invalid-length error: it neither loops forever nor returns a count.
\* The loop condition reads temp, gran and minLen only, so an iteration that
\* leaves temp as it was with the condition still true repeats for ever: the
\* finite form of "loops forever".
ZeroLengthCall == pc = "while" /\ length = 0 /\ minLen >= 1

C2_ZeroLengthFails ==
    /\ [][~(ZeroLengthCall /\ pc' = "while" /\ temp' = temp
              /\ WhileCond(temp', gran', minLen'))]_vars
    /\ (ZeroLengthCall ~> (pc = "raise"))

(***************************************************************************)
(* iq_wfm_combiner (M8190A, VSG, VXG: int16 buffer; VectorUXG: uint16)     *)
(***************************************************************************)
IqClasses == {"M8190A", "VSG", "VXG", "VectorUXG"}

\* dtype of the np.empty buffer of each class's iq_wfm_combiner
DType(cls) == IF cls = "VectorUXG" THEN "uint16" ELSE "int16"

\* numpy's C cast of an integer to a 16-bit element
Cast(dtype, x) ==
    IF dtype = "int16" THEN ((x + 32768) % 65536) - 32768 ELSE x % 65536

\* Elements check_wfm hands to the combiner: it returns arrays of the same
\* dtype as the combiner's buffer.
Samples(cls) ==
    IF DType(cls) = "int16" THEN {-32768, -1, 32767} ELSE {0, 32768, 65535}

SeqsUpTo(S, n) == UNION {[1 .. k -> S] : k \in 0 .. n}

\* np.empty(n, dtype): n elements of unspecified content
np_empty(n) == [k \in 1 .. n |-> "uninit"]

\* Number of elements of the slice arr[start::2]
SliceLen(arr, start) ==
    IF Len(arr) > start THEN (Len(arr) - start + 1) \div 2 ELSE 0

\* arr[start::2] = src.  numpy broadcasts src to the slice's shape: equal
\* lengths are copied element by element, a one-element src is repeated over
\* the whole slice, anything else raises ValueError.
SetSliceStep2(arr, start, src, dtype) ==
    LET n == SliceLen(arr, start)
        slot(k) == (k - start + 1) \div 2
        isSlot(k) == k > start /\ (k - start) % 2 = 1
    IN  IF Len(src) = n
        THEN [err |-> "none",
              arr |-> [k \in 1 .. Len(arr) |->
                         IF isSlot(k) THEN Cast(dtype, src[slot(k)]) ELSE arr[k]]]
        ELSE IF Len(src) = 1
        THEN [err |-> "none",
              arr |-> [k \in 1 .. Len(arr) |->
                         IF isSlot(k) THEN Cast(dtype, src[1]) ELSE arr[k]]]
        ELSE [err |-> "ValueError", arr |-> arr]

iq_wfm_combiner_swapped(cls, i, q) ==
    LET iq0 == np_empty(2 * Len(i))
        s1 == SetSliceStep2(iq0, 1, i, DType(cls))
        s2 == SetSliceStep2(s1.arr, 0, q, DType(cls))
    IN  IF s1.err # "none" THEN [err |-> s1.err, iq |-> <<>>]
        ELSE IF s2.err # "none" THEN [err |-> s2.err, iq |-> <<>>]
        ELSE [err |-> "none", iq |-> s2.arr]

\* iq = np.empty(2 * len(i)); iq[0::2] = i; iq[1::2] = q; return iq
iq_wfm_combiner(cls, i, q) ==
    LET iq0 == np_empty(2 * Len(i))
        s1 == SetSliceStep2(iq0, 0, i, DType(cls))
        s2 == SetSliceStep2(s1.arr, 1, q, DType(cls))
    IN  IF s1.err # "none" THEN [err |-> s1.err, iq |-> <<>>]
        ELSE IF s2.err # "none" THEN [err |-> s2.err, iq |-> <<>>]
        ELSE [err |-> "none", iq |-> s2.arr]

\* One call wfm = iq_wfm_combiner(i, q) on arrays of the class's dtype.
combine ==
    /\ combStatus = "idle"
    /\ \E cls \in IqClasses :
         \E i \in SeqsUpTo(Samples(cls), MaxIqLen), q \in SeqsUpTo(Samples(cls), MaxIqLen) :
            LET r == iq_wfm_combiner(cls, i, q)
            IN  /\ instr' = cls
                /\ iData' = i
                /\ qData' = q
                /\ wfm' = r.iq
                /\ combStatus' = IF r.err = "none" THEN "returned" ELSE r.err
    /\ UNCHANGED <<wrapVars, pdwVars, bldVars, fpVars, laterVars>>

IqInit == InitWrapVars /\ InitIqVars /\ InitPdwVars /\ InitBldVars /\ InitFpVars /\ InitLaterVars

IqNext == combine

IqSpec == IqInit /\ [][IqNext]_vars

\* C3: for i and q of equal length n the combiner returns a buffer of length
\* 2n with iq[2k] = i[k] and iq[2k+1] = q[k] for every 0 <= k < n.
C3_Interleaved ==
    (combStatus # "idle" /\ Len(iData) = Len(qData)) =>
        /\ combStatus = "returned"
        /\ Len(wfm) = 2 * Len(iData)
        /\ \A k \in 0 .. (Len(iData) - 1) :
              /\ wfm[2 * k + 1] = iData[k + 1]
              /\ wfm[2 * k + 2] = qData[k + 1]

C3_Witness ==
    /\ combStatus = "returned"
    /\ Len(iData) = 2 /\ Len(qData) = 2
    /\ iData[1] # qData[1] /\ iData[2] # qData[2] /\ iData[1] # iData[2]

\* C4: the combiner fails with a length-mismatch error, and returns no
\* buffer, whenever len(i) # len(q), a one-element q included.
C4_MismatchFails ==
    (combStatus # "idle" /\ Len(iData) # Len(qData)) =>
        (combStatus = "ValueError" /\ wfm = <<>>)

(***************************************************************************)
(* Python integers and their bytes.  A Python int is unbounded and its     *)
(* bitwise operators act on the infinite two's complement form, so it is   *)
(* held as the bits b (least significant first) followed by the sign bit s *)
(* repeated for ever.                                                      *)
(***************************************************************************)
Pow2(k) == 2 ^ k

Zeros(n) == [k \in 1 .. n |-> 0]

Ones(n) == [k \in 1 .. n |-> 1]

Max(a, b) == IF a >= b THEN a ELSE b

\* int(x) of a float x = a / b (b > 0): truncation toward zero
TruncDiv(a, b) == IF a >= 0 THEN a \div b ELSE -((-a) \div b)

\* The Python int of a small integer n, -2^31 < n < 2^31.
PyInt(n) ==
    IF n >= 0
    THEN [s |-> 0, b |-> [k \in 1 .. 31 |-> (n \div Pow2(k - 1)) % 2]]
    ELSE [s |-> 1,
          b |-> [k \in 1 .. 31 |-> (((n + 2147483647) + 1) \div Pow2(k - 1)) % 2]]

\* Bit k (k >= 0) of a Python int
Bit(x, k) == IF k < Len(x.b) THEN x.b[k + 1] ELSE x.s

\* x << k
Shl(x, k) == [s |-> x.s, b |-> Zeros(k) \o x.b]

\* x >> k
Shr(x, k) == [s |-> x.s, b |-> SubSeq(x.b, k + 1, Len(x.b))]

\* x | y
BitOr(x, y) ==
    [s |-> Max(x.s, y.s),
     b |-> [k \in 1 .. Max(Len(x.b), Len(y.b)) |-> Max(Bit(x, k - 1), Bit(y, k - 1))]]

\* x & y
BitAnd(x, y) ==
    [s |-> x.s * y.s,
     b |-> [k \in 1 .. Max(Len(x.b), Len(y.b)) |-> Bit(x, k - 1) * Bit(y, k - 1)]]

\* The literals 0xFFFFFFFF, 0xFFFFFFFF00000000, 0x1F00000000, 0x3fffff and
\* 0xffffffffffffffff
Mask32 == [s |-> 0, b |-> Ones(32)]

MaskHigh32 == [s |-> 0, b |-> Zeros(32) \o Ones(32)]

Mask1F00000000 == [s |-> 0, b |-> Zeros(32) \o Ones(5)]

Mask3fffff == [s |-> 0, b |-> Ones(22)]

AllOnes64 == [s |-> 0, b |-> Ones(64)]

\* Whether 0 <= x < 2^n
FitsUnsigned(x, n) ==
    x.s = 0 /\ \A k \in (n + 1) .. Len(x.b) : x.b[k] = 0

\* Byte j (j >= 0) of the two's complement form of x
ByteAt(x, j) ==
    Bit(x, 8 * j) + 2 * Bit(x, 8 * j + 1) + 4 * Bit(x, 8 * j + 2)
    + 8 * Bit(x, 8 * j + 3) + 16 * Bit(x, 8 * j + 4) + 32 * Bit(x, 8 * j + 5)
    + 64 * Bit(x, 8 * j + 6) + 128 * Bit(x, 8 * j + 7)

\* x.to_bytes(n, byteorder='little') for 0 <= x < 256^n (every call of the
\* builders passes such a value)
to_bytes(x, n) ==
    [j \in 1 .. n |-> IF 8 * (j - 1) >= Len(x.b) THEN 255 * x.s ELSE ByteAt(x, j - 1)]

\* The printable ASCII characters, code 32 first (the double quote, the
\* backslash and the backtick by name)
AsciiTable ==
    <<" ", "!", "QUOTE", "#", "$", "%", "&", "'", "(", ")", "*", "+", ",",
      "-", ".", "/", "0", "1", "2", "3", "4", "5", "6", "7", "8", "9", ":",
      ";", "<", "=", ">", "?", "@", "A", "B", "C", "D", "E", "F", "G", "H",
      "I", "J", "K", "L", "M", "N", "O", "P", "Q", "R", "S", "T", "U", "V",
      "W", "X", "Y", "Z", "[", "BACKSLASH", "]", "^", "_", "BACKTICK", "a", "b", "c",
      "d", "e", "f", "g", "h", "i", "j", "k", "l", "m", "n", "o", "p", "q",
      "r", "s", "t", "u", "v", "w", "x", "y", "z", "{", "|", "}", "~">>

\* The UTF-8 byte of an ASCII character
Ascii(c) == 31 + (CHOOSE k \in 1 .. Len(AsciiTable) : AsciiTable[k] = c)

RECURSIVE Join(_)
\* b''.join(parts): the parts' bytes one after the other, order kept
Join(parts) ==
    IF parts = <<>> THEN <<>> ELSE Head(parts) \o Join(Tail(parts))

\* The UTF-8 bytes of one character: one byte for an ASCII character, two
\* (0xC3 0xA9) for the e with acute accent U+00E9, which stands for the
\* characters outside ASCII
Utf8Char(c) == IF c = "E_ACUTE" THEN <<195, 169>> ELSE <<Ascii(c)>>

\* bytearray(str, 'utf-8'); str is held as the sequence of its characters
Utf8(str) == Join([k \in 1 .. Len(str) |-> Utf8Char(str[k])])

(***************************************************************************)
(* Floats.  A float argument is held as the exact fraction n / d (d > 0)   *)
(* it stands for; the inputs explored are ones for which the double        *)
(* arithmetic of the source gives the same integers as exact arithmetic.   *)
(***************************************************************************)
RECURSIVE FloorLog2Up(_, _, _)
\* largest e >= acc with d * 2^e <= n, for n >= d * 2^acc
FloorLog2Up(n, d, acc) ==
    IF 2 * d * Pow2(acc) <= n THEN FloorLog2Up(n, d, acc + 1) ELSE acc

RECURSIVE FloorLog2Down(_, _, _)
\* -(smallest k >= acc with n * 2^k >= d), for n < d
FloorLog2Down(n, d, acc) ==
    IF n * Pow2(acc) >= d THEN -acc ELSE FloorLog2Down(n, d, acc + 1)

\* floor(math.log(n / d) / math.log(2)) for n / d > 0
FloorLog2(n, d) ==
    IF n >= d THEN FloorLog2Up(n, d, 0) ELSE FloorLog2Down(n, d, 1)

\* math.pow(10, power / 20) for power a multiple of 20 dB
pow10_20(power) ==
    IF power >= 0
    THEN [n |-> 10 ^ (power \div 20), d |-> 1]
    ELSE [n |-> 1, d |-> 10 ^ ((-power) \div 20)]

\* math.log(x) raises ValueError (math domain error) unless x > 0
MathLogDefined(v) == v.n > 0

convert_to_floating_point_keepMantissa(v, exponentOffset, mantissaBits, exponentBits) ==
    LET maxExponent == Pow2(exponentBits) - 1
        maxMantissa == Pow2(mantissaBits) - 1
        exponent == FloorLog2(v.n, v.d) - exponentOffset
        mantissaScale == Pow2(mantissaBits)
        effectiveExponent == exponentOffset + exponent
        xn == IF effectiveExponent < 0 THEN v.n * Pow2(-effectiveExponent) ELSE v.n
        xd == IF effectiveExponent < 0 THEN v.d ELSE v.d * Pow2(effectiveExponent)
        mantissa == TruncDiv(2 * (xn - xd) * mantissaScale + xd, 2 * xd)
        em == IF exponent > maxExponent THEN <<maxExponent, maxMantissa>>
              ELSE IF exponent >= 0
              THEN IF mantissa > maxMantissa
                   THEN IF exponent < maxExponent
                        THEN <<exponent + 1, maxMantissa>>
                        ELSE <<exponent, maxMantissa>>
                   ELSE <<exponent, mantissa>>
              ELSE <<0, 0>>
    IN  em[1] * Pow2(mantissaBits) + em[2]

convert_to_floating_point_noClamp(v, exponentOffset, mantissaBits, exponentBits) ==
    LET maxExponent == Pow2(exponentBits) - 1
        maxMantissa == Pow2(mantissaBits) - 1
        exponent == FloorLog2(v.n, v.d) - exponentOffset
        mantissaScale == Pow2(mantissaBits)
        effectiveExponent == exponentOffset + exponent
        xn == IF effectiveExponent < 0 THEN v.n * Pow2(-effectiveExponent) ELSE v.n
        xd == IF effectiveExponent < 0 THEN v.d ELSE v.d * Pow2(effectiveExponent)
        mantissa == TruncDiv(2 * (xn - xd) * mantissaScale + xd, 2 * xd)
        em == IF exponent > maxExponent THEN <<exponent, maxMantissa>>
              ELSE IF exponent >= 0
              THEN IF mantissa > maxMantissa
                   THEN IF exponent < maxExponent
                        THEN <<exponent + 1, 0>>
                        ELSE <<exponent, maxMantissa>>
                   ELSE <<exponent, mantissa>>
              ELSE <<0, 0>>
    IN  em[1] * Pow2(mantissaBits) + em[2]

\* AnalogUXG.convert_to_floating_point for inputVal = v.n / v.d > 0
convert_to_floating_point(v, exponentOffset, mantissaBits, exponentBits) ==
    LET maxExponent == Pow2(exponentBits) - 1
        maxMantissa == Pow2(mantissaBits) - 1
        exponent == FloorLog2(v.n, v.d) - exponentOffset
        mantissaScale == Pow2(mantissaBits)
        effectiveExponent == exponentOffset + exponent
        \* math.ldexp(inputVal, -effectiveExponent) = xn / xd
        xn == IF effectiveExponent < 0 THEN v.n * Pow2(-effectiveExponent) ELSE v.n
        xd == IF effectiveExponent < 0 THEN v.d ELSE v.d * Pow2(effectiveExponent)
        \* np.uint32((x - 1) * mantissaScale + 0.5)
        mantissa == TruncDiv(2 * (xn - xd) * mantissaScale + xd, 2 * xd)
        em == IF exponent > maxExponent THEN <<maxExponent, maxMantissa>>
              ELSE IF exponent >= 0
              THEN IF mantissa > maxMantissa
                   THEN IF exponent < maxExponent
                        THEN <<exponent + 1, 0>>
                        ELSE <<exponent, maxMantissa>>
                   ELSE <<exponent, mantissa>>
              ELSE <<0, 0>>
    IN  em[1] * Pow2(mantissaBits) + em[2]

closest_m_2_n_noCarry(v, mantissaBits, exponent_bits) ==
    LET maxMantissa == Pow2(mantissaBits) - 1
        cap(m) == IF m > maxMantissa THEN maxMantissa ELSE m
    IN  IF 2 * v.n < (2 * maxMantissa + 1) * v.d
        THEN <<0, cap(TruncDiv(2 * v.n + v.d, 2 * v.d))>>
        ELSE LET \* math.frexp: inputVal = m * 2^e with 0.5 <= m < 1
                 possibleExponent == (FloorLog2(v.n, v.d) + 1 + v.x) - mantissaBits
                 \* fracMantissa = v.n / fd
                 fd == v.d * Pow2(possibleExponent - v.x)
                 \* 2 * fracMantissa = q2 + r2 / fd
                 q2 == (2 * v.n) \div fd
                 r2 == (2 * v.n) % fd
                 \* fracMantissa > maxMantissa + 0.5 - 1e-9
                 nearTop ==
                     \/ q2 >= 2 * maxMantissa + 1
                     \/ /\ q2 = 2 * maxMantissa
                        /\ fd - r2 <= 4
                        /\ (fd - r2) * 500000000 < fd
             IN  IF nearTop
                 THEN <<possibleExponent, maxMantissa + 1>>
                 ELSE <<possibleExponent, cap(TruncDiv(2 * v.n + fd, 2 * fd))>>

closest_m_2_n_sameExponent(v, mantissaBits, exponent_bits) ==
    LET maxMantissa == Pow2(mantissaBits) - 1
        cap(m) == IF m > maxMantissa THEN maxMantissa ELSE m
    IN  IF 2 * v.n < (2 * maxMantissa + 1) * v.d
        THEN <<0, cap(TruncDiv(2 * v.n + v.d, 2 * v.d))>>
        ELSE LET \* math.frexp: inputVal = m * 2^e with 0.5 <= m < 1
                 possibleExponent == (FloorLog2(v.n, v.d) + 1 + v.x) - mantissaBits
                 \* fracMantissa = v.n / fd
                 fd == v.d * Pow2(possibleExponent - v.x)
                 \* 2 * fracMantissa = q2 + r2 / fd
                 q2 == (2 * v.n) \div fd
                 r2 == (2 * v.n) % fd
                 \* fracMantissa > maxMantissa + 0.5 - 1e-9
                 nearTop ==
                     \/ q2 >= 2 * maxMantissa + 1
                     \/ /\ q2 = 2 * maxMantissa
                        /\ fd - r2 <= 4
                        /\ (fd - r2) * 500000000 < fd
             IN  IF nearTop
                 THEN <<possibleExponent, Pow2(mantissaBits - 1)>>
                 ELSE <<possibleExponent, cap(TruncDiv(2 * v.n + fd, 2 * fd))>>

\* AnalogUXG.closest_m_2_n for inputVal = (v.n / v.d) * 2^v.x >= 0, where v.x > 0
\* only for v.n / v.d >= 2^mantissaBits: <<exponent, mantissa>>
closest_m_2_n(v, mantissaBits, exponent_bits) ==
    LET maxMantissa == Pow2(mantissaBits) - 1
        cap(m) == IF m > maxMantissa THEN maxMantissa ELSE m
    IN  IF 2 * v.n < (2 * maxMantissa + 1) * v.d
        THEN <<0, cap(TruncDiv(2 * v.n + v.d, 2 * v.d))>>
        ELSE LET \* math.frexp: inputVal = m * 2^e with 0.5 <= m < 1
                 possibleExponent == (FloorLog2(v.n, v.d) + 1 + v.x) - mantissaBits
                 \* fracMantissa = v.n / fd
                 fd == v.d * Pow2(possibleExponent - v.x)
                 \* 2 * fracMantissa = q2 + r2 / fd
                 q2 == (2 * v.n) \div fd
                 r2 == (2 * v.n) % fd
                 \* fracMantissa > maxMantissa + 0.5 - 1e-9
                 nearTop ==
                     \/ q2 >= 2 * maxMantissa + 1
                     \/ /\ q2 = 2 * maxMantissa
                        /\ fd - r2 <= 4
                        /\ (fd - r2) * 500000000 < fd
             IN  IF nearTop
                 THEN <<possibleExponent + 1, Pow2(mantissaBits - 1)>>
                 ELSE <<possibleExponent, cap(TruncDiv(2 * v.n + fd, 2 * fd))>>

\* chirpValue = float(chirpRate) / float(chirpRateRes) with chirpRateRes =
\* 21.822, for chirpRate = m * 2^x Hz/us (m >= 0 an integer; x > 0 only for
\* m >= 2^28 / 1500, which keeps chirpValue above 2^13)
ChirpValue(chirpRate) == [n |-> chirpRate.m * 500, d |-> 10911, x |-> chirpRate.x]

chirp_closest_m_2_n_noHalving(chirpRate) ==
    LET mantissaBits == 13
        exponentBits == 4
        mantissaMask == Pow2(mantissaBits) - 1
        em == closest_m_2_n(ChirpValue(chirpRate), mantissaBits, exponentBits)
        exponent == IF em[1] % 2 = 1 THEN (em[1] + 1) \div 2 ELSE em[1] \div 2
        mantissa == em[2]
    IN  exponent * Pow2(mantissaBits) + (mantissa % (mantissaMask + 1))

\* AnalogUXG.chirp_closest_m_2_n(chirpRate, chirpRateRes=21.822)
chirp_closest_m_2_n(chirpRate) ==
    LET mantissaBits == 13
        exponentBits == 4
        mantissaMask == Pow2(mantissaBits) - 1
        em == closest_m_2_n(ChirpValue(chirpRate), mantissaBits, exponentBits)
        exponent == IF em[1] % 2 = 1 THEN (em[1] + 1) \div 2 ELSE em[1] \div 2
        mantissa == IF em[1] % 2 = 1 THEN em[2] \div 2 ELSE em[2]
    IN  exponent * Pow2(mantissaBits) + (mantissa % (mantissaMask + 1))

(***************************************************************************)
(* PDW builders.  A PDW's parameters are a record; its float fields hold   *)
(* the numerator of the value over a fixed denominator:                    *)
(*   freq in 1/2048 Hz, phase in 1/4 degree, startTimeSec in 1/4 ps,       *)
(*   width in 1/4 ns (format 3: Width(hi, lo)), VectorUXG power in 1/400   *)
(*   dB;                                                                   *)
(*   AnalogUXG power in dB (a multiple of 20), chirpRate m * 2^x Hz/us.    *)
(***************************************************************************)
\* int(freq * 1024 + 0.5): freq * 1024 + 0.5 = (f + 1) / 2 for freq = f / 2048
FreqFixed(freq) == TruncDiv(freq + 1, 2)

\* int(phase * 4096 / 360 + 0.5) for phase = ph / 4
PhaseFixed(phase) == TruncDiv(2 * 4096 * phase + 4 * 360, 2 * 4 * 360)

\* if 180 < phase <= 360: phase -= 360
PhaseWrapAnalog(phase) ==
    IF 180 * 4 < phase /\ phase <= 360 * 4 THEN phase - 360 * 4 ELSE phase

\* int(startTimeSec * 1e12) for startTimeSec = t / 4 ps
StartTimePs(startTimeSec) == TruncDiv(startTimeSec, 4)

\* int(width * 1e9) for width = w / 4 ns
WidthNs(width) == TruncDiv(width, 4)

\* int((power + 140) / 0.005 + 0.5) for power = p / 400 dB
PowerFixed(power) == TruncDiv((power + 140 * 400) + 1, 2)

\* pdw[k] = x on a uint32 array.  Inside 0 .. 2^32 - 1 the element is x.  Outside
\* it, numpy raises OverflowError or keeps the low 32 bits, depending on its
\* version: ok tells which case this is, w is the wrapped element.
StoreU32(x) == [ok |-> FitsUnsigned(x, 32), w |-> BitAnd(x, Mask32)]

Or3(a, b, c) == BitOr(BitOr(a, b), c)

Or4(a, b, c, d) == BitOr(Or3(a, b, c), d)

Or5(a, b, c, d, e) == BitOr(Or4(a, b, c, d), e)

\* Words 0 to 3, which AnalogUXG.bin_pdw_builder and both VectorUXG builders
\* fill alike from pdwFormat, operation, _freq, _phase and _startTimePs.  The
\* AnalogUXG builder masks only _freq << 5 in word 0, the VectorUXG builders
\* the whole word.
Word0Analog(pdwFormat, operation, fq) ==
    Or3(PyInt(pdwFormat), Shl(PyInt(operation), 3), BitAnd(Shl(PyInt(fq), 5), Mask32))

Word0Vector(pdwFormat, operation, fq) ==
    BitAnd(Or3(PyInt(pdwFormat), Shl(PyInt(operation), 3), Shl(PyInt(fq), 5)), Mask32)

Word1(fq, ph) == BitAnd(BitOr(Shr(PyInt(fq), 27), Shl(PyInt(ph), 20)), Mask32)

Word2(st) == BitAnd(PyInt(st), Mask32)

Word3(st) == Shr(BitAnd(PyInt(st), MaskHigh32), 32)

\* The array a builder returns: ok when every store was in range
PdwArray(stores) ==
    [ok |-> \A k \in 1 .. Len(stores) : stores[k].ok,
     words |-> [k \in 1 .. Len(stores) |-> stores[k].w]]

\* AnalogUXG.bin_pdw_builder: pdw = np.zeros(7, dtype=np.uint32)
AnalogUXG_bin_pdw_builder(p) ==
    LET pdwFormat == 1
        fq == FreqFixed(p.freq)
        ph == PhaseFixed(PhaseWrapAnalog(p.phase))
        st == StartTimePs(p.startTimeSec)
        wd == WidthNs(p.width)
        pw == convert_to_floating_point(pow10_20(p.power), -26, 10, 5)
        cr == chirp_closest_m_2_n(p.chirpRate)
    IN  PdwArray(<<
          StoreU32(Word0Analog(pdwFormat, p.operation, fq)),
          StoreU32(Word1(fq, ph)),
          StoreU32(Word2(st)),
          StoreU32(Word3(st)),
          StoreU32(PyInt(wd)),
          StoreU32(Or5(PyInt(pw), Shl(PyInt(p.markers), 15), Shl(PyInt(p.pulseMode), 27),
                       Shl(PyInt(p.phaseControl), 29), Shl(PyInt(p.bandAdjust), 30))),
          StoreU32(Or4(PyInt(p.chirpControl), Shl(PyInt(p.code), 3),
                       Shl(PyInt(cr), 12), Shl(PyInt(p.freqMap), 29))) >>)

\* VectorUXG.bin_pdw_builder (format 1): pdw = np.zeros(6, dtype=np.uint32)
VectorUXG_bin_pdw_builder(p) ==
    LET pdwFormat == 1
        fq == FreqFixed(p.freq)
        ph == PhaseFixed(p.phase)
        st == StartTimePs(p.startTimeSec)
        pw == PowerFixed(p.power)
    IN  PdwArray(<<
          StoreU32(Word0Vector(pdwFormat, p.operation, fq)),
          StoreU32(Word1(fq, ph)),
          StoreU32(Word2(st)),
          StoreU32(Word3(st)),
          StoreU32(Or4(PyInt(pw), Shl(PyInt(p.markers), 15),
                       Shl(PyInt(p.phaseControl), 27), Shl(PyInt(p.rfOff), 28))),
          StoreU32(Or3(PyInt(p.wIndex), Shl(PyInt(0), 16), Shl(PyInt(p.wfmMkrMask), 28))) >>)

PulseWidthPs_picoseconds(width) == BitOr(Shl(PyInt(width.hi), 30), PyInt(width.lo))

\* int(width * 1e12 * 2) as a Python int, for width = (hi * 2^30 + lo) / 4 ps
\* with 0 <= lo < 2^30 and hi >= 0: the value is hi * 2^29 + lo \div 2
PulseWidthPs(width) == BitOr(Shl(PyInt(width.hi), 29), PyInt(TruncDiv(width.lo, 2)))

\* int(loLead / 4e-9) for loLead in ns
LoLead(loLead) == TruncDiv(loLead, 4)

\* VectorUXG.bin_pdw_builder_3 (format 3): pdw = np.zeros(11, dtype=np.uint32);
\* words 8 to 10 stay zero
VectorUXG_bin_pdw_builder_3(p) ==
    LET pdwFormat == 3
        fq == FreqFixed(p.freq)
        ph == PhaseFixed(p.phase)
        st == StartTimePs(p.startTimeSec)
        pwd == PulseWidthPs(p.width)
        mp == PowerFixed(p.maxPower)
        pw == PowerFixed(p.power)
        ll == LoLead(p.loLead)
        newWfm == 1
        wfmType == 0
        zero == StoreU32(PyInt(0))
    IN  PdwArray(<<
          StoreU32(Word0Vector(pdwFormat, p.operation, fq)),
          StoreU32(Word1(fq, ph)),
          StoreU32(Word2(st)),
          StoreU32(Word3(st)),
          StoreU32(BitAnd(pwd, Mask32)),
          StoreU32(Or3(Shr(BitAnd(pwd, Mask1F00000000), 32), Shl(PyInt(mp), 5),
                       Shl(PyInt(p.markers), 20))),
          StoreU32(BitOr(Or4(PyInt(pw), Shl(PyInt(p.phaseControl), 15),
                             Shl(PyInt(p.rfOff), 16), Shl(PyInt(p.autoBlank), 17)),
                         Or4(Shl(PyInt(newWfm), 18), Shl(PyInt(p.zeroHold), 19),
                             Shl(PyInt(ll), 20), Shl(PyInt(p.wfmMkrMask), 28)))),
          StoreU32(BitOr(Shl(PyInt(wfmType), 8), Shl(PyInt(p.wIndex), 10))),
          zero, zero, zero >>)

\* self.bin_pdw_builder(*p) of class cls
bin_pdw_builder(cls, p) ==
    IF cls = "AnalogUXG" THEN AnalogUXG_bin_pdw_builder(p)
    ELSE VectorUXG_bin_pdw_builder(p)

\* The bytes b''.join takes from a uint32 array: its elements, 4 bytes each,
\* least significant first (the buffer of a little-endian host)
ArrayBytes(words) == Join([k \in 1 .. Len(words) |-> to_bytes(words[k], 4)])

\* PDW parameter lists explored
AnalogPdw(op, fr, ph, st, wd, pw, mk, pm, pcn, ba, cc, cd, cr, fm) ==
    [operation |-> op, freq |-> fr, phase |-> ph, startTimeSec |-> st, width |-> wd,
     power |-> pw, markers |-> mk, pulseMode |-> pm, phaseControl |-> pcn,
     bandAdjust |-> ba, chirpControl |-> cc, code |-> cd,
     chirpRate |-> [m |-> cr, x |-> 0],
     freqMap |-> fm]

AnalogPdws ==
    { AnalogPdw(1, 2048000, 0, 0, 4000, 0, 0, 2, 0, 0, 0, 0, 0, 0),
      AnalogPdw(0, 1073741827, 1080, 4000003, 41, -20, 5, 2, 1, 2, 2, 1, 1000, 6),
      AnalogPdw(2, 2049, -361, 7, 0, 20, 4095, 1, 0, 1, 1, 2, 200000, 0),
      AnalogPdw(0, 0, 720, 2147483647, 2147483647, 40, 1, 0, 1, 3, 0, 0, 178757, 0),
      \* markers << 15 = 2^32: out of the range of a uint32 element
      AnalogPdw(1, 2048000, 0, 0, 4000, 0, 131072, 2, 0, 0, 0, 0, 0, 0) }

VectorPdw(op, fr, ph, st, pw, mk, pcn, rf, wi, wm) ==
    [operation |-> op, freq |-> fr, phase |-> ph, startTimeSec |-> st, power |-> pw,
     markers |-> mk, phaseControl |-> pcn, rfOff |-> rf, wIndex |-> wi,
     wfmMkrMask |-> wm]

VectorPdws ==
    { VectorPdw(1, 2048000, 0, 0, 0, 0, 0, 0, 0, 0),
      VectorPdw(0, 1073741827, 1080, 4000003, -4000, 5, 1, 0, 1, 15),
      VectorPdw(2, 2049, -361, 7, -56000, 4095, 0, 1, 65535, 1),
      VectorPdw(0, 0, 720, 2147483647, 4001, 1, 1, 1, 2, 0),
      \* wfmMkrMask << 28 = 2^32: out of the range of a uint32 element
      VectorPdw(1, 2048000, 0, 0, 0, 0, 0, 0, 0, 16) }

Pdws(cls) == IF cls = "AnalogUXG" THEN AnalogPdws ELSE VectorPdws

(***************************************************************************)
(* Frequency/phase coding block and padding block of the AnalogUXG         *)
(***************************************************************************)
\* struct.pack("<d", x) for an integer x, |x| < 2^31: sign bit 63, biased
\* exponent in bits 52-62, fraction in bits 0-51
PackDouble(x) ==
    LET a == IF x < 0 THEN -x ELSE x
        e == FloorLog2(a, 1)
        bits == Or3(Shl(PyInt(a - Pow2(e)), 52 - e),
                    Shl(PyInt(e + 1023), 52),
                    Shl(PyInt(IF x < 0 THEN 1 ELSE 0), 63))
    IN  IF x = 0 THEN Zeros(8) ELSE to_bytes(bits, 8)

HexDigits ==
    <<"0", "1", "2", "3", "4", "5", "6", "7", "8", "9", "A", "B", "C", "D", "E", "F">>

HexVal(c) == (CHOOSE k \in 1 .. 16 : HexDigits[k] = c) - 1

\* bytearray.fromhex(str) for a string of an even number of hex digits
FromHex(str) ==
    [k \in 1 .. (Len(str) \div 2) |-> 16 * HexVal(str[2 * k - 1]) + HexVal(str[2 * k])]

\* AnalogUXG.bin_freqPhaseCodingSingleEntry; strings are character sequences
bin_freqPhaseCodingSingleEntry(onOffState, numBitsPerSubpulse, codingType, stateMapping, hexPatternString, comment) ==
    IF Len(hexPatternString) % 2 # 0 THEN [err |-> "UXGError", bytes |-> <<>>]
    ELSE LET hexPatternBytes == FromHex(hexPatternString)
             numBitsInPattern == 8 * Len(hexPatternBytes)
             fpcBin == to_bytes(PyInt(onOffState), 1)
                       \o to_bytes(PyInt(numBitsPerSubpulse), 1)
                       \o to_bytes(PyInt(codingType), 1)
                       \o to_bytes(PyInt(Len(comment)), 1)
                       \o to_bytes(PyInt(numBitsInPattern), 4)
         IN  IF \/ (codingType # 0 /\ codingType # 1)
                \/ numBitsPerSubpulse # 1
                \/ Len(hexPatternBytes) > 8192
                \/ Len(comment) > 60
             THEN [err |-> "UXGError", bytes |-> <<>>]
             ELSE [err |-> "none",
                   bytes |-> fpcBin
                             \o Join([k \in 1 .. Len(stateMapping) |->
                                        PackDouble(stateMapping[k])])
                             \o hexPatternBytes
                             \o Utf8(comment)]

bin_pdw_freqPhaseCodingBlock_swapped ==
    LET numEntries == 3
        freqPhaseBlockId == to_bytes(PyInt(13), 4)
        reserved1 == to_bytes(PyInt(0), 4)
        version == to_bytes(PyInt(2), 4)
        numberOfEntries == to_bytes(PyInt(numEntries), 4)
        entry0 == bin_freqPhaseCodingSingleEntry(0, 1, 0, <<0, 180>>, <<>>,
                    <<"N", "o", "C", "o", "d", "i", "n", "g", "F", "i", "r", "s", "t",
                      "E", "n", "t", "r", "y">>).bytes
        entry1 == bin_freqPhaseCodingSingleEntry(1, 1, 0, <<0, 180>>,
                    <<"2", "A", "6", "1", "D", "3", "2", "7">>,
                    <<"P", "S", "K", "c", "o", "d", "e", "3", "2", "b", "i", "t", "s">>).bytes
        entry2 == bin_freqPhaseCodingSingleEntry(1, 1, 1, <<-10000000, 10000000>>,
                    <<"5", "A", "C", "4">>,
                    <<"F", "S", "K", "c", "o", "d", "e", "T", "e", "s", "t", "1", "6",
                      "b", "i", "t", "s">>).bytes
        sizeInBytes == Len(version) + Len(numberOfEntries) + Len(entry0) + Len(entry1)
                       + Len(entry2)
        sizeBlock == to_bytes(PyInt(sizeInBytes), 8)
        returnBlock == <<freqPhaseBlockId, reserved1, sizeBlock, version,
                         numberOfEntries, entry0, entry1, entry2>>
        tempSize == Len(Join(returnBlock))
        sizeOfEndBufferBytes == 16 - (tempSize % 16)
        endFpcBlockBufferBytes == to_bytes(PyInt(0), sizeOfEndBufferBytes)
    IN  <<freqPhaseBlockId, reserved1, sizeBlock, version, numberOfEntries,
          entry1, entry0, entry2, endFpcBlockBufferBytes>>

\* AnalogUXG.bin_pdw_freqPhaseCodingBlock: the list returnBlockWithPadding
bin_pdw_freqPhaseCodingBlock ==
    LET numEntries == 3
        freqPhaseBlockId == to_bytes(PyInt(13), 4)
        reserved1 == to_bytes(PyInt(0), 4)
        version == to_bytes(PyInt(2), 4)
        numberOfEntries == to_bytes(PyInt(numEntries), 4)
        entry0 == bin_freqPhaseCodingSingleEntry(0, 1, 0, <<0, 180>>, <<>>,
                    <<"N", "o", "C", "o", "d", "i", "n", "g", "F", "i", "r", "s", "t",
                      "E", "n", "t", "r", "y">>).bytes
        entry1 == bin_freqPhaseCodingSingleEntry(1, 1, 0, <<0, 180>>,
                    <<"2", "A", "6", "1", "D", "3", "2", "7">>,
                    <<"P", "S", "K", "c", "o", "d", "e", "3", "2", "b", "i", "t", "s">>).bytes
        entry2 == bin_freqPhaseCodingSingleEntry(1, 1, 1, <<-10000000, 10000000>>,
                    <<"5", "A", "C", "4">>,
                    <<"F", "S", "K", "c", "o", "d", "e", "T", "e", "s", "t", "1", "6",
                      "b", "i", "t", "s">>).bytes
        sizeInBytes == Len(version) + Len(numberOfEntries) + Len(entry0) + Len(entry1)
                       + Len(entry2)
        sizeBlock == to_bytes(PyInt(sizeInBytes), 8)
        returnBlock == <<freqPhaseBlockId, reserved1, sizeBlock, version,
                         numberOfEntries, entry0, entry1, entry2>>
        tempSize == Len(Join(returnBlock))
        sizeOfEndBufferBytes == 16 - (tempSize % 16)
        endFpcBlockBufferBytes == to_bytes(PyInt(0), sizeOfEndBufferBytes)
    IN  <<freqPhaseBlockId, reserved1, sizeBlock, version, numberOfEntries,
          entry0, entry1, entry2, endFpcBlockBufferBytes>>

paddingBlock_sizeWithHeader(sizeOfPaddingAndHeaderInBytes) ==
    LET paddingFillerSize == sizeOfPaddingAndHeaderInBytes - 16
    IN  << to_bytes(PyInt(1), 4), to_bytes(PyInt(0), 4),
           to_bytes(PyInt(sizeOfPaddingAndHeaderInBytes), 8),
           to_bytes(PyInt(0), paddingFillerSize) >>

\* AnalogUXG.paddingBlock(sizeOfPaddingAndHeaderInBytes)
paddingBlock(sizeOfPaddingAndHeaderInBytes) ==
    LET paddingHeaderSize == 16
        paddingFillerSize == sizeOfPaddingAndHeaderInBytes - paddingHeaderSize
        padBlockId == to_bytes(PyInt(1), 4)
        res3 == to_bytes(PyInt(0), 4)
        size == to_bytes(PyInt(paddingFillerSize), 8)
        padData == to_bytes(PyInt(0), paddingFillerSize)
    IN  <<padBlockId, res3, size, padData>>

(***************************************************************************)
(* bin_pdw_file_builder (AnalogUXG, VectorUXG)                             *)
(***************************************************************************)
UxgClasses == {"AnalogUXG", "VectorUXG"}

FileId == Utf8(<<"S", "T", "R", "M">>)

Magic == Utf8(<<"K", "E", "Y", "S">>)

\* AnalogUXG: offset = ((fieldBlock >> 1) & 0x3fffff).to_bytes(4, 'little')
\* with fieldBlock = 1
AnalogUXG_offset == to_bytes(BitAnd(Shr(PyInt(1), 1), Mask3fffff), 4)

\* VectorUXG: offset = ((1 << 1) & 0x3fffff).to_bytes(4, 'little')
VectorUXG_offset == to_bytes(BitAnd(Shl(PyInt(1), 1), Mask3fffff), 4)

\* dataId of the header
DataId(cls) == IF cls = "AnalogUXG" THEN 16 ELSE 64

header_short(cls) ==
    << FileId,
       to_bytes(PyInt(1), 4),
       IF cls = "AnalogUXG" THEN AnalogUXG_offset ELSE VectorUXG_offset,
       Magic,
       to_bytes(PyInt(0), 4),
       to_bytes(PyInt(0), 4),
       to_bytes(PyInt(0), 4),
       to_bytes(PyInt(DataId(cls)), 4),
       to_bytes(PyInt(0), 4) >>

\* header = [fileId, version, offset, magic, res0, flags, uniqueId, dataId, res1]
header(cls) ==
    << FileId,
       to_bytes(PyInt(1), 4),
       IF cls = "AnalogUXG" THEN AnalogUXG_offset ELSE VectorUXG_offset,
       Magic,
       to_bytes(PyInt(0), 16),
       to_bytes(PyInt(0), 4),
       to_bytes(PyInt(0), 4),
       to_bytes(PyInt(DataId(cls)), 4),
       to_bytes(PyInt(0), 4) >>

\* The blocks between the header and the PDW block.  AnalogUXG
\* (includeFpcBlock = 1): fpcBlock + paddingBlock(4080 - tempHeaderSize -
\* fpcBlockSize).  VectorUXG: the fixed padding block of 4016 filler bytes.
leadingBlocks(cls) ==
    IF cls = "AnalogUXG"
    THEN LET tempHeaderSize == Len(Join(header(cls)))
             fpcBlock == bin_pdw_freqPhaseCodingBlock
             fpcBlockSize == Len(Join(fpcBlock))
             paddingSize == 4080 - tempHeaderSize - fpcBlockSize
         IN  fpcBlock \o paddingBlock(paddingSize)
    ELSE << to_bytes(PyInt(1), 4), to_bytes(PyInt(0), 4), to_bytes(PyInt(4016), 8),
            to_bytes(PyInt(0), 4016) >>

\* pdwBlock = [pdwBlockId, res4, pdwSize]
pdwBlock == << to_bytes(PyInt(16), 4), to_bytes(PyInt(0), 4), to_bytes(AllOnes64, 8) >>

Reverse(seq) == [k \in 1 .. Len(seq) |-> seq[Len(seq) + 1 - k]]

pdwRecords_reversed(cls, lst) ==
    Reverse([k \in 1 .. Len(lst) |-> ArrayBytes(bin_pdw_builder(cls, lst[k]).words)])

\* [self.bin_pdw_builder(*p) for p in pdwList], as b''.join reads the arrays
pdwRecords(cls, lst) ==
    [k \in 1 .. Len(lst) |-> ArrayBytes(bin_pdw_builder(cls, lst[k]).words)]

\* What follows the PDWs: AnalogUXG appends (0).to_bytes(24, 'little'),
\* VectorUXG appends nothing.
trailer(cls) ==
    IF cls = "AnalogUXG" THEN << to_bytes(PyInt(0), 24) >> ELSE <<>>

\* pdwFile = b''.join(header + [fpcBlock +] padding + pdwBlock + PDWs [+ trailer])
pdwFileBytes(cls, lst) ==
    Join(header(cls) \o leadingBlocks(cls) \o pdwBlock \o pdwRecords(cls, lst)
         \o trailer(cls))

\* One call pdwFile = bin_pdw_file_builder(pdwList).
\*   wraps    : a store outside the uint32 range keeps the low 32 bits (else
\*              numpy raises OverflowError and the list comprehension ends)
\*   errCheck : self.errCheck; VectorUXG calls err_check only when it is set,
\*              AnalogUXG always calls it
\*   instrErr : err_check finds an error in the instrument's queue and raises
bin_pdw_file_builder ==
    /\ fbStatus = "idle"
    /\ \E cls \in UxgClasses :
         \E lst \in SeqsUpTo(Pdws(cls), MaxPdws), wraps \in BOOLEAN,
            errCheck \in (IF cls = "AnalogUXG" THEN {TRUE} ELSE BOOLEAN),
            instrErr \in BOOLEAN :
            LET allOk == \A k \in 1 .. Len(lst) : bin_pdw_builder(cls, lst[k]).ok
                checked == cls = "AnalogUXG" \/ errCheck
                status == IF ~allOk /\ ~wraps THEN "OverflowError"
                          ELSE IF checked /\ instrErr THEN "SockInstError"
                          ELSE "returned"
            IN  /\ uxg' = cls
                /\ pdwList' = lst
                /\ fbStatus' = status
                /\ pdwFile' = IF status = "returned" THEN pdwFileBytes(cls, lst) ELSE <<>>
    /\ UNCHANGED <<wrapVars, iqVars, bldVars, fpVars, laterVars>>

PdwInit == InitWrapVars /\ InitIqVars /\ InitPdwVars /\ InitBldVars /\ InitFpVars /\ InitLaterVars

PdwNext == bin_pdw_file_builder

PdwSpec == PdwInit /\ [][PdwNext]_vars

(***************************************************************************)
(* Reading a PDW file back: byte offsets count from 0.                     *)
(***************************************************************************)
Returned == fbStatus = "returned"

\* bytes off .. off + n - 1 of the file
Slice(off, n) == SubSeq(pdwFile, off + 1, off + n)

\* the unsigned little-endian value of 4 bytes (below 2^31)
LE32(bytes) == bytes[1] + 256 * bytes[2] + 65536 * bytes[3] + 16777216 * bytes[4]

AllZero(bytes) == \A k \in 1 .. Len(bytes) : bytes[k] = 0

\* a block header at off: blockId (4B), reserved (4B), size (8B, below 2^31)
BlockId(off) == LE32(Slice(off, 4))

BlockSize(off) == LE32(Slice(off + 8, 4))

SmallBlockAt(off) ==
    /\ Len(pdwFile) >= off + 16
    /\ AllZero(Slice(off + 12, 4))
    /\ Slice(off + 11, 1)[1] < 128

\* the PDW-section header: blockId 16, reserved 0, size 0xFFFFFFFFFFFFFFFF
PdwHeaderAt(off) ==
    /\ Len(pdwFile) >= off + 16
    /\ Slice(off, 16) = <<16, 0, 0, 0, 0, 0, 0, 0, 255, 255, 255, 255, 255, 255, 255, 255>>

\* Where the block that follows the block at off starts: 16 header bytes and
\* `size` bytes, and for the coding block (id 13) zero padding to the next
\* 16-byte boundary.
NextBlock(off) ==
    LET len == 16 + BlockSize(off)
    IN  IF BlockId(off) = 13 THEN off + len + (16 - (len % 16)) ELSE off + len

\* Start of the padding block behind a header of hdr bytes: the first block,
\* or the one after the coding block.
PadStart(hdr) == IF BlockId(hdr) = 13 THEN NextBlock(hdr) ELSE hdr

\* Bytes of one PDW record of the class: np.zeros(7) and np.zeros(6) uint32
RecordBytes(cls) == IF cls = "AnalogUXG" THEN 4 * 7 ELSE 4 * 6

\* The header's offset field, (blockCount << 1) & 0x3fffff, as a byte offset:
\* blockCount blocks of 4096 bytes
DeclaredPdwOffset == (LE32(Slice(8, 4)) \div 2) * 4096

\* C5: in every returned file the PDW section starts at the offset the header
\* declares, one 4096-byte block: header + coding block + padding block are
\* 4080 bytes (a multiple of 16), the PDW-section header is bytes 4080..4095 and
\* the first PDW record starts at byte 4096.
C5_PdwSectionAtDeclaredOffset ==
    Returned =>
        /\ DeclaredPdwOffset = 4096
        /\ SmallBlockAt(PadStart(48))
        /\ BlockId(PadStart(48)) = 1
        /\ NextBlock(PadStart(48)) = 4080
        /\ 4080 % 16 = 0
        /\ PdwHeaderAt(4080)
        /\ Len(pdwFile) >= 4096 + Len(pdwList) * RecordBytes(uxg)

\* The byte layout alone, which both builders keep: the PDW-section header is
\* bytes 4080..4095 and the records start at byte 4096.
PdwSectionAt4096 ==
    Returned =>
        /\ SmallBlockAt(PadStart(48))
        /\ BlockId(PadStart(48)) = 1
        /\ NextBlock(PadStart(48)) = 4080
        /\ PdwHeaderAt(4080)

\* C6: the header's offset field, bytes 8..11, is (1 << 1) & 0x3fffff = 2,
\* little-endian 02 00 00 00, in the files of both builders.
C6_OffsetFieldIsTwo == Returned => Slice(8, 4) = <<2, 0, 0, 0>>

\* C7: every file starts 'STRM', version 1, offset, 'KEYS', 16 zero bytes,
\* flags 0, uniqueId 0, dataBlockType (16 AnalogUXG, 64 VectorUXG), 4 zero
\* bytes; the padding block starts with blockId 1 and its size field is its
\* number of filler bytes; the PDW-section header is blockId 16, 4 zero bytes,
\* size 0xFFFFFFFFFFFFFFFF.
C7_HeaderLayout ==
    Returned =>
        /\ Slice(0, 4) = <<83, 84, 82, 77>>
        /\ Slice(4, 4) = <<1, 0, 0, 0>>
        /\ Slice(12, 4) = <<75, 69, 89, 83>>
        /\ AllZero(Slice(16, 16))
        /\ AllZero(Slice(32, 4))
        /\ AllZero(Slice(36, 4))
        /\ Slice(40, 4) = <<(IF uxg = "AnalogUXG" THEN 16 ELSE 64), 0, 0, 0>>
        /\ AllZero(Slice(44, 4))
        /\ LET pad == PadStart(48)
           IN  /\ SmallBlockAt(pad)
               /\ Slice(pad, 4) = <<1, 0, 0, 0>>
               /\ AllZero(Slice(pad + 4, 4))
               /\ AllZero(Slice(pad + 16, BlockSize(pad)))
               /\ PdwHeaderAt(pad + 16 + BlockSize(pad))

C7_Witness ==
    /\ Returned /\ uxg = "AnalogUXG" /\ Len(pdwList) = 2 /\ pdwList[1] # pdwList[2]
    /\ BlockId(48) = 13 /\ PadStart(48) = 208 /\ BlockSize(208) = 3856

\* C8 as claimed: the header is 36 bytes long, so the first block (coding block,
\* id 13, or padding block, id 1) starts at byte 36.
C8_HeaderIs36Bytes ==
    Returned => (SmallBlockAt(36) /\ BlockId(36) \in {1, 13})

\* C8 amended: the header is 48 bytes long; the first block (AnalogUXG: coding
\* block, id 13; VectorUXG: padding block, id 1) starts at byte 48, right
\* behind the header's last reserved field.
C8_HeaderIs48Bytes ==
    Returned =>
        /\ Slice(40, 4) = <<(IF uxg = "AnalogUXG" THEN 16 ELSE 64), 0, 0, 0>>
        /\ AllZero(Slice(44, 4))
        /\ SmallBlockAt(48)
        /\ BlockId(48) = (IF uxg = "AnalogUXG" THEN 13 ELSE 1)
        /\ NextBlock(PadStart(48)) = 4080

C8_Witness == Returned /\ uxg = "VectorUXG" /\ Len(pdwList) = 1 /\ BlockId(48) = 1

\* C9: the PDW section holds exactly the n records of pdwList, the k-th being
\* the bytes of bin_pdw_builder(*pdwList[k]): none dropped, duplicated or
\* reordered, and behind them nothing that is a further record.
C9_RecordsInOrder ==
    Returned =>
        LET n == Len(pdwList)
            rb == RecordBytes(uxg)
            rest == Len(pdwFile) - 4096 - n * rb
        IN  /\ \A k \in 0 .. (n - 1) :
                  Slice(4096 + k * rb, rb)
                    = ArrayBytes(bin_pdw_builder(uxg, pdwList[k + 1]).words)
            /\ rest >= 0 /\ rest < rb
            /\ AllZero(Slice(4096 + n * rb, rest))

C9_Witness ==
    /\ Returned /\ Len(pdwList) = 2 /\ pdwList[1] # pdwList[2]
    /\ Slice(4096, RecordBytes(uxg)) # Slice(4096 + RecordBytes(uxg), RecordBytes(uxg))

\* C10: every returned file, the one of the empty list included, ends with a
\* sentinel of 24 zero bytes right behind the last PDW.
C10_TrailingSentinel ==
    Returned =>
        /\ Len(pdwFile) = 4096 + Len(pdwList) * RecordBytes(uxg) + 24
        /\ AllZero(Slice(Len(pdwFile) - 24, 24))


(***************************************************************************)
(* One call of a PDW builder                                               *)
(***************************************************************************)
Builders ==
    {"AnalogUXG.bin_pdw_builder", "VectorUXG.bin_pdw_builder",
     "VectorUXG.bin_pdw_builder_3"}

\* width = (hi * 2^30 + lo) / 4 ps
Width(hi, lo) == [hi |-> hi, lo |-> lo]

Vector3Pdw(op, fr, ph, st, wd, mp, mk, pw, pcn, rf, ab, zh, ll, wm, wi) ==
    [operation |-> op, freq |-> fr, phase |-> ph, startTimeSec |-> st, width |-> wd,
     maxPower |-> mp, markers |-> mk, power |-> pw, phaseControl |-> pcn,
     rfOff |-> rf, autoBlank |-> ab, zeroHold |-> zh, loLead |-> ll,
     wfmMkrMask |-> wm, wIndex |-> wi]

\* Argument values explored: operation, freq (1/2048 Hz), phase (1/4 degree:
\* 0, 0.25, 90, 180, 270, 360, 450, -1, -90, -90.25, -180, -270), startTimeSec
\* (1/4 ps), markers
BldOperations == {0, 1, 3, 4}

BldFreqs == {0, 2049, 1073741827}

BldPhases == {0, 1, 360, 720, 1080, 1440, 1800, -4, -360, -361, -720, -1080}

BldStartTimes == {7, 2147483647}

BldMarkers == {0, 4095, 4096}

\* Format-3 inputs also take the pulse widths 10 us, 2^37 - 1 half-picoseconds
\* (the largest of 37 bits), 2^32 + 1 half-picoseconds and 2^37
\* half-picoseconds (one bit too many), and the flags f = <<phaseControl,
\* rfOff, autoBlank, zeroHold>>
BuilderInputs(b) ==
    IF b = "AnalogUXG.bin_pdw_builder"
    THEN AnalogPdws \cup
         { AnalogPdw(op, fr, ph, st, 4000, 0, mk, 2, 0, 0, 0, 0, 0, 0) :
             op \in BldOperations, fr \in BldFreqs, ph \in BldPhases,
             st \in BldStartTimes, mk \in BldMarkers }
    ELSE IF b = "VectorUXG.bin_pdw_builder"
    THEN VectorPdws \cup
         { VectorPdw(op, fr, ph, st, 0, mk, 0, 0, 1, 0) :
             op \in BldOperations, fr \in BldFreqs, ph \in BldPhases,
             st \in BldStartTimes, mk \in BldMarkers }
    ELSE { Vector3Pdw(op, fr, ph, st, Width(0, 40000000), 0, mk, 0, 0, 0, 0, 0, 0, 0, 1) :
             op \in BldOperations, fr \in BldFreqs, ph \in BldPhases,
             st \in BldStartTimes, mk \in BldMarkers }
         \cup
         { Vector3Pdw(1, 2049, 0, 7, wd, mp, 4095, pw, f[1], f[2], f[3], f[4], ll, wm, wi) :
             wd \in {Width(0, 40000000), Width(255, 1073741823), Width(8, 2), Width(256, 0)}, mp \in {-56000, -4000}, pw \in {0, 9534},
             f \in {<<0, 0, 0, 0>>, <<1, 0, 1, 0>>, <<0, 1, 0, 1>>, <<1, 1, 1, 1>>}, ll \in {0, 1023}, wm \in {0, 15}, wi \in {0, 65535} }

ApplyBuilder(b, p) ==
    IF b = "AnalogUXG.bin_pdw_builder" THEN AnalogUXG_bin_pdw_builder(p)
    ELSE IF b = "VectorUXG.bin_pdw_builder" THEN VectorUXG_bin_pdw_builder(p)
    ELSE VectorUXG_bin_pdw_builder_3(p)

\* The one call builder(*params) of a run.  A store out of the range of uint32 raises
\* OverflowError or wraps, depending on the numpy version.
build_pdw ==
    \E b \in Builders :
      \E p \in BuilderInputs(b) :
        LET r == ApplyBuilder(b, p)
        IN  /\ bldStatus = "idle"
            /\ builder' = b
            /\ params' = p
            /\ \E wraps \in (IF r.ok THEN {TRUE} ELSE BOOLEAN) :
                 IF r.ok \/ wraps
                 THEN pdw' = r /\ bldStatus' = "returned"
                 ELSE pdw' = [ok |-> FALSE, words |-> <<>>]
                      /\ bldStatus' = "OverflowError"
            /\ UNCHANGED <<wrapVars, iqVars, pdwVars, fpVars, laterVars>>

BldInit == InitWrapVars /\ InitIqVars /\ InitPdwVars /\ InitBldVars /\ InitFpVars /\ InitLaterVars

BldNext == build_pdw

BldSpec == BldInit /\ [][BldNext]_vars

(***************************************************************************)
(* Reading a PDW back                                                      *)
(***************************************************************************)
RECURSIVE Field(_, _, _)
\* The n-bit unsigned field of word w whose lowest bit is bit lo
Field(w, lo, n) ==
    IF n = 0 THEN 0 ELSE Bit(w, lo) + 2 * Field(w, lo + 1, n - 1)

BuiltPdw == bldStatus = "returned"

\* pdwFormat of each builder and the word count the formats are declared with
FormatOf(b) == IF b = "VectorUXG.bin_pdw_builder_3" THEN 3 ELSE 1

DeclaredWords(b) == IF FormatOf(b) = 3 THEN 11 ELSE 6

\* Whether every argument fits the width of its field
InRange(b, p) ==
    /\ p.operation \in 0 .. 3
    /\ FreqFixed(p.freq) >= 0
    /\ IF b = "AnalogUXG.bin_pdw_builder"
       THEN /\ p.markers \in 0 .. 4095
            /\ p.pulseMode \in 0 .. 3 /\ p.phaseControl \in 0 .. 1
            /\ p.bandAdjust \in 0 .. 3 /\ p.chirpControl \in 0 .. 7
            /\ p.code \in 0 .. 511 /\ p.freqMap \in 0 .. 7
       ELSE /\ p.markers \in 0 .. 4095
            /\ PowerFixed(p.power) \in 0 .. 32767
            /\ p.phaseControl \in 0 .. 1 /\ p.rfOff \in 0 .. 1
            /\ p.wIndex \in 0 .. 65535 /\ p.wfmMkrMask \in 0 .. 15
            /\ b = "VectorUXG.bin_pdw_builder_3" =>
                 /\ PowerFixed(p.maxPower) \in 0 .. 32767
                 /\ p.width.hi \in 0 .. 255 /\ p.width.lo >= 0
                 /\ p.autoBlank \in 0 .. 1 /\ p.zeroHold \in 0 .. 1
                 /\ LoLead(p.loLead) \in 0 .. 255

\* C11: every returned PDW has the word count of its format (format 1: 6 words,
\* format 3: 11 words); the low 3 bits of word 0 are the format number and
\* bits 3-4 the operation.
C11_FixedWordCount ==
    BuiltPdw =>
      /\ Len(pdw.words) = DeclaredWords(builder)
      /\ Field(pdw.words[1], 0, 3) = FormatOf(builder)
      /\ params.operation \in 0 .. 3 => Field(pdw.words[1], 3, 2) = params.operation

\* C12: a call with an argument that does not fit its field fails with a
\* field-overflow error; no PDW is returned for it.
C12_FieldOverflowFails ==
    (bldStatus # "idle" /\ ~InRange(builder, params)) => bldStatus = "FieldOverflow"

\* The phase field of word 1 as a 12-bit two's complement number
PhaseField == Field(pdw.words[2], 20, 12)

DecodedPhase == IF PhaseField >= 2048 THEN PhaseField - 4096 ELSE PhaseField

\* The frequency field (word 0 bits 5-31, word 1 bits 0-19) in 1/1024 Hz
DecodedFreq == Field(pdw.words[1], 5, 27) + 134217728 * Field(pdw.words[2], 0, 20)

\* The start time (word 2, word 3) in ps, for a word 3 of zero
DecodedStartTime == Field(pdw.words[3], 0, 31)

Abs(x) == IF x < 0 THEN -x ELSE x

\* C13: for in-range arguments, frequency, phase and start time read back from
\* words 0 to 3 are within one quantization step (1/1024 Hz, 360/4096 degree,
\* 1 ps) of the arguments, negative phases and phase = 180 included.
C13_SharedFieldsRoundTrip ==
    ( /\ BuiltPdw /\ InRange(builder, params)
      /\ -180 * 4 < params.phase /\ params.phase <= 180 * 4
      /\ params.startTimeSec >= 0 )
    => /\ Abs(2 * DecodedFreq - params.freq) <= 2
       /\ Abs(DecodedPhase * 360 * 4 - params.phase * 4096) <= 360 * 4
       /\ Field(pdw.words[4], 0, 32) = 0 /\ Field(pdw.words[3], 31, 1) = 0
       /\ Abs(4 * DecodedStartTime - params.startTimeSec) <= 4

\* The angle of (-180, 180] equivalent to phase (1/4 degree)
NormalizedPhase(phase) == ((phase + 180 * 4 - 1) % (360 * 4)) - 180 * 4 + 1

\* C14: the phase field is the fixed-point conversion of the phase normalized
\* to (-180, 180], for every phase.
C14_PhaseNormalizedFirst ==
    BuiltPdw => PhaseField = PhaseFixed(NormalizedPhase(params.phase)) % 4096

(***************************************************************************)
(* One call of convert_to_floating_point, or closest_m_2_n applied to two  *)
(* values x <= y                                                           *)
(***************************************************************************)
MaxFpNum == 30
MaxFpMantBits == 2
MaxFpExpBits == 2
MaxCmNum == 70
MaxCmBits == 3
MaxChirpScale == 32

\* inputVal = n / d for d = 1 and d = 4, zero and a negative value included
FpValues == { [n |-> k, d |-> dd] : k \in -1 .. MaxFpNum, dd \in {1, 4} }

FpOffsets == {-2, 0, 1}

\* The calls of AnalogUXG.bin_pdw_builder: math.pow(10, power / 20), -26, 10, 5
FpPowers == {-40, -20, 0, 20, 40}

FpCalls ==
    { <<v, off, mb, eb>> : v \in FpValues, off \in FpOffsets,
                           mb \in 1 .. MaxFpMantBits, eb \in 1 .. MaxFpExpBits }
    \cup { <<pow10_20(power), -26, 10, 5>> : power \in FpPowers }

convert_to_floating_point_call ==
    \E c \in FpCalls :
        /\ fpFun = "none"
        /\ fpFun' = "convert_to_floating_point"
        /\ fpVal' = c[1] /\ fpOffset' = c[2] /\ fpMantBits' = c[3] /\ fpExpBits' = c[4]
        /\ IF MathLogDefined(c[1])
           THEN /\ fpResult' = convert_to_floating_point(c[1], c[2], c[3], c[4])
                /\ fpStatus' = "returned"
           ELSE fpResult' = 0 /\ fpStatus' = "ValueError"
        /\ UNCHANGED <<cmX, cmY, cmBits, cmResX, cmResY, chirpArg, chirpEM, chirpOut>>
        /\ UNCHANGED <<wrapVars, iqVars, pdwVars, bldVars, laterVars>>

\* inputVal = n / 4 with mantissaBits from 2 up, and the chirp values
\* chirpRate / 21.822 = chirpRate * 500 / 10911 with mantissaBits = 13
CmChirpRates == {0, 1000, 178745, 178746, 178757, 200000}

CmCalls ==
    { <<[n |-> a, d |-> 4, x |-> 0], [n |-> b, d |-> 4, x |-> 0], mb>> :
        a \in 0 .. MaxCmNum, b \in 0 .. MaxCmNum, mb \in 2 .. MaxCmBits }
    \cup { <<[n |-> a * 500, d |-> 10911, x |-> 0],
              [n |-> b * 500, d |-> 10911, x |-> 0], 13>> :
             a \in CmChirpRates, b \in CmChirpRates }

closest_m_2_n_call ==
    \E c \in CmCalls :
        /\ fpFun = "none"
        /\ c[1].n <= c[2].n
        /\ fpFun' = "closest_m_2_n"
        /\ cmX' = c[1] /\ cmY' = c[2] /\ cmBits' = c[3]
        /\ cmResX' = closest_m_2_n(c[1], c[3], 4)
        /\ cmResY' = closest_m_2_n(c[2], c[3], 4)
        /\ fpStatus' = "returned"
        /\ UNCHANGED <<fpVal, fpOffset, fpMantBits, fpExpBits, fpResult>>
        /\ UNCHANGED <<chirpArg, chirpEM, chirpOut>>
        /\ UNCHANGED <<wrapVars, iqVars, pdwVars, bldVars, laterVars>>

\* One call on a chirp rate m * 2^x Hz/us: the small ones as they are, the
\* ones above 2^13 * 21.822 also scaled by the powers of two up to
\* 2^MaxChirpScale
chirp_closest_m_2_n_call ==
    \E c \in { [m |-> a, x |-> 0] : a \in CmChirpRates \cup {1, 22, 44, 357000, 1000000} }
            \cup { [m |-> a, x |-> k] : a \in {178757, 200000, 357000, 1000000},
                                      k \in 1 .. MaxChirpScale } :
        /\ fpFun = "none"
        /\ fpFun' = "chirp_closest_m_2_n"
        /\ chirpArg' = c
        /\ chirpEM' = closest_m_2_n(ChirpValue(c), 13, 4)
        /\ chirpOut' = chirp_closest_m_2_n(c)
        /\ fpStatus' = "returned"
        /\ UNCHANGED <<fpVal, fpOffset, fpMantBits, fpExpBits, fpResult>>
        /\ UNCHANGED <<cmX, cmY, cmBits, cmResX, cmResY>>
        /\ UNCHANGED <<wrapVars, iqVars, pdwVars, bldVars, laterVars>>

FpInit == InitWrapVars /\ InitIqVars /\ InitPdwVars /\ InitBldVars /\ InitFpVars /\ InitLaterVars

FpNext ==
    \/ convert_to_floating_point_call
    \/ closest_m_2_n_call
    \/ chirp_closest_m_2_n_call

FpSpec == FpInit /\ [][FpNext]_vars

Converted == fpFun = "convert_to_floating_point"

\* floor(log2(value) - exponentOffset) of the converted value, for value > 0
FpExponent == FloorLog2(fpVal.n, fpVal.d) - fpOffset

FpMaxExponent == Pow2(fpExpBits) - 1

FpMaxMantissa == Pow2(fpMantBits) - 1

\* (value * 2^-(exponentOffset + exponent) - 1) * 2^mantissaBits + 0.5,
\* truncated, for value > 0 and exponent = FpExponent
FpRoundedMantissa ==
    LET eff == fpOffset + FpExponent
        xn == IF eff < 0 THEN fpVal.n * Pow2(-eff) ELSE fpVal.n
        xd == IF eff < 0 THEN fpVal.d ELSE fpVal.d * Pow2(eff)
    IN  (2 * (xn - xd) * Pow2(fpMantBits) + xd) \div (2 * xd)

Packed(e, m) == e * Pow2(fpMantBits) + m

\* C15: convert_to_floating_point returns 0 for every value <= 0 and for every
\* positive value with floor(log2(value) - exponentOffset) < 0; it does not
\* fail for them.
C15_ZeroForUnrepresentable ==
    (Converted /\ (fpVal.n <= 0 \/ FpExponent < 0))
    => (fpStatus = "returned" /\ fpResult = 0)

\* C16: when rounding takes the mantissa above maxMantissa the result is
\* (exponent + 1, 0) below maxExponent and (maxExponent, maxMantissa) at it;
\* an exponent above maxExponent gives (maxExponent, maxMantissa).
C16_CarryAndSaturate ==
    (Converted /\ fpVal.n > 0) =>
      /\ (/\ 0 <= FpExponent /\ FpExponent < FpMaxExponent
          /\ FpRoundedMantissa > FpMaxMantissa)
         => (fpStatus = "returned" /\ fpResult = Packed(FpExponent + 1, 0))
      /\ (FpExponent = FpMaxExponent /\ FpRoundedMantissa > FpMaxMantissa)
         => (fpStatus = "returned" /\ fpResult = Packed(FpMaxExponent, FpMaxMantissa))
      /\ FpExponent > FpMaxExponent
         => (fpStatus = "returned" /\ fpResult = Packed(FpMaxExponent, FpMaxMantissa))

\* A carry: the rounded mantissa is above maxMantissa below maxExponent
C16_WitnessCarry ==
    /\ Converted /\ fpVal.n > 0 /\ fpStatus = "returned"
    /\ 0 <= FpExponent /\ FpExponent < FpMaxExponent
    /\ FpRoundedMantissa > FpMaxMantissa
    /\ fpResult = Packed(FpExponent + 1, 0)

\* C17: for every positive value the result is (e << mantissaBits) | m with
\* 0 <= e <= 2^exponentBits - 1 and 0 <= m <= 2^mantissaBits - 1, hence below
\* 2^(mantissaBits + exponentBits); the power code (10, 5) is below 2^15.
C17_ResultInRange ==
    (Converted /\ fpVal.n > 0) =>
      /\ fpStatus = "returned"
      /\ \E e \in 0 .. FpMaxExponent, m \in 0 .. FpMaxMantissa : fpResult = Packed(e, m)
      /\ fpResult < Pow2(fpMantBits + fpExpBits)
      /\ (fpMantBits = 10 /\ fpExpBits = 5) => fpResult < 32768

\* The power code of a value above the largest representable one: exponent
\* and mantissa both at their maximum
C17_Witness ==
    /\ Converted /\ fpVal.n > 0 /\ fpStatus = "returned"
    /\ fpMantBits = 10 /\ fpExpBits = 5
    /\ fpResult = 32767

ClosestApplied == fpFun = "closest_m_2_n"

CmMaxMantissa == Pow2(cmBits) - 1

\* math.frexp(x)[1] for x = cmX >= 0.5: x = m * 2^e with 0.5 <= m < 1
CmFrexpExponent == FloorLog2(cmX.n, cmX.d) + 1

\* Whether cmX >= maxMantissa + 0.5
CmAboveExponentZero == 2 * cmX.n >= (2 * CmMaxMantissa + 1) * cmX.d

\* round-half-up of cmX / 2^pe
CmRounded(pe) == (2 * cmX.n + cmX.d * Pow2(pe)) \div (2 * cmX.d * Pow2(pe))

\* C18: above maxMantissa + 0.5 a scaled mantissa that rounds above maxMantissa
\* gives exponent + 1 and the mantissa 2^(mantissaBits - 1); the mantissa never
\* exceeds maxMantissa; below maxMantissa + 0.5 the result is exponent 0 and
\* the value rounded half up.
C18_CarryRule ==
    ClosestApplied =>
      /\ cmResX[2] <= CmMaxMantissa
      /\ ~CmAboveExponentZero => cmResX = <<0, CmRounded(0)>>
      /\ (/\ CmAboveExponentZero
          /\ CmRounded(CmFrexpExponent - cmBits) > CmMaxMantissa)
         => cmResX = <<CmFrexpExponent - cmBits + 1, Pow2(cmBits - 1)>>

C18_Witness ==
    /\ ClosestApplied /\ CmAboveExponentZero
    /\ CmRounded(CmFrexpExponent - cmBits) > CmMaxMantissa
    /\ cmResX = <<CmFrexpExponent - cmBits + 1, Pow2(cmBits - 1)>>
    /\ CmFrexpExponent - cmBits >= 1

Magnitude(r) == r[2] * Pow2(r[1])

\* C19: closest_m_2_n is monotonic: for x <= y the encoded magnitude
\* mantissa * 2^exponent of x is at most that of y.
C19_Monotonic ==
    (ClosestApplied /\ cmX.d = cmY.d /\ cmX.n <= cmY.n)
    => Magnitude(cmResX) <= Magnitude(cmResY)

\* x below a carry boundary and y on it
C19_Witness ==
    /\ ClosestApplied /\ cmX.d = cmY.d /\ cmX.n < cmY.n
    /\ cmResX[1] < cmResY[1] /\ cmResX[2] = CmMaxMantissa
    /\ cmResY[2] = Pow2(cmBits - 1)
    /\ Magnitude(cmResX) < Magnitude(cmResY)

(***************************************************************************)
(* Reading the frequency/phase coding block of an AnalogUXG file, which    *)
(* follows the 48-byte file header                                          *)
(***************************************************************************)
FpcStart == 48

\* One entry at off: onOffState, numBitsPerSubpulse, codingType, length of the
\* comment (1 byte each), numBitsInPattern (4 bytes), two doubles, the pattern
\* and the comment
FpcEntryLen(off) ==
    8 + 16 + (LE32(Slice(off + 4, 4)) \div 8) + Slice(off + 3, 1)[1]

FpcEntry0At == FpcStart + 24

FpcEntry1At == FpcEntry0At + FpcEntryLen(FpcEntry0At)

FpcEntry2At == FpcEntry1At + FpcEntryLen(FpcEntry1At)

FpcEntriesEnd == FpcEntry2At + FpcEntryLen(FpcEntry2At)

\* pattern of the entry at off as bytes
FpcPattern(off) == Slice(off + 24, LE32(Slice(off + 4, 4)) \div 8)

\* onOffState, codingType and pattern of the three entries of the table:
\* index 0 no coding, index 1 PSK 2A61D327, index 2 FSK 5AC4
FpcEntriesInIndexOrder ==
    /\ Slice(FpcEntry0At, 1)[1] = 0 /\ Slice(FpcEntry0At + 2, 1)[1] = 0
    /\ FpcPattern(FpcEntry0At) = <<>>
    /\ Slice(FpcEntry1At, 1)[1] = 1 /\ Slice(FpcEntry1At + 2, 1)[1] = 0
    /\ FpcPattern(FpcEntry1At) = <<42, 97, 211, 39>>
    /\ Slice(FpcEntry2At, 1)[1] = 1 /\ Slice(FpcEntry2At + 2, 1)[1] = 1
    /\ FpcPattern(FpcEntry2At) = <<90, 196>>

FpcUnpaddedLen == FpcEntriesEnd - FpcStart

FpcPadLen == 16 - (FpcUnpaddedLen % 16)

\* C20: the coding block is blockId 13, 4 reserved bytes, the 8-byte size (8 plus
\* the length of the entries), version 2, entry count 3, the three entries in
\* index order and then 16 - (unpadded length mod 16) zero bytes, between 1 and
\* 16, which make the block a multiple of 16 bytes; the padding block follows.
C20_CodingBlockLayout ==
    (Returned /\ uxg = "AnalogUXG") =>
      /\ BlockId(FpcStart) = 13
      /\ AllZero(Slice(FpcStart + 4, 4))
      /\ SmallBlockAt(FpcStart)
      /\ LE32(Slice(FpcStart + 16, 4)) = 2
      /\ LE32(Slice(FpcStart + 20, 4)) = 3
      /\ FpcEntriesInIndexOrder
      /\ BlockSize(FpcStart) = 8 + (FpcEntriesEnd - FpcEntry0At)
      /\ FpcPadLen \in 1 .. 16
      /\ AllZero(Slice(FpcEntriesEnd, FpcPadLen))
      /\ (FpcUnpaddedLen + FpcPadLen) % 16 = 0
      /\ BlockId(FpcStart + FpcUnpaddedLen + FpcPadLen) = 1

C20_Witness ==
    /\ Returned /\ uxg = "AnalogUXG" /\ Len(pdwList) > 0
    /\ BlockId(FpcStart) = 13
    /\ FpcUnpaddedLen % 16 # 0
    /\ BlockId(FpcStart + FpcUnpaddedLen + FpcPadLen) = 1

(***************************************************************************)
(* Reading a format-3 PDW back                                             *)
(***************************************************************************)
BuiltFormat3 == BuiltPdw /\ builder = "VectorUXG.bin_pdw_builder_3"

\* C23: format 3 keeps its fields apart: pulse width (37 bits) in word 4 and
\* word 5 bits 0-4, maxPower at word 5 bits 5-19, markers at bits 20-31; word 6
\* holds power (0-14), phaseControl (15), rfOff (16), autoBlank (17), newWfm = 1
\* (18), zeroHold (19), loLead (20-27), wfmMkrMask (28-31); word 7 holds wIndex
\* at bits 10-25; words 8-10 are zero.  Every in-range field reads back exactly.
C23_Format3FieldsApart ==
    (BuiltFormat3 /\ InRange(builder, params)) =>
      LET w == pdw.words
      IN  /\ Len(w) = 11
          \* int(width * 2e12) = hi * 2^29 + lo \div 2
          /\ Field(w[5], 0, 29) = params.width.lo \div 2
          /\ Field(w[5], 29, 3) + 8 * Field(w[6], 0, 5) = params.width.hi
          /\ Field(w[6], 5, 15) = PowerFixed(params.maxPower)
          /\ Field(w[6], 20, 12) = params.markers
          /\ Field(w[7], 0, 15) = PowerFixed(params.power)
          /\ Field(w[7], 15, 1) = params.phaseControl
          /\ Field(w[7], 16, 1) = params.rfOff
          /\ Field(w[7], 17, 1) = params.autoBlank
          /\ Field(w[7], 18, 1) = 1
          /\ Field(w[7], 19, 1) = params.zeroHold
          /\ Field(w[7], 20, 8) = LoLead(params.loLead)
          /\ Field(w[7], 28, 4) = params.wfmMkrMask
          /\ Field(w[8], 0, 10) = 0
          /\ Field(w[8], 10, 16) = params.wIndex
          /\ Field(w[8], 26, 6) = 0
          /\ \A k \in 9 .. 11 : \A j \in 0 .. 31 : Bit(w[k], j) = 0
          /\ \A k \in 1 .. 11 : FitsUnsigned(w[k], 32)

\* A 37-bit pulse width with bits on both sides of the word boundary, all
\* flags set and the largest maxPower, markers, loLead, mask and index
C23_Witness ==
    /\ BuiltFormat3 /\ InRange(builder, params)
    /\ params.width = Width(255, 1073741823)
    /\ Field(pdw.words[6], 0, 5) = 31
    /\ params.zeroHold = 1 /\ params.wfmMkrMask = 15 /\ params.wIndex = 65535
    /\ LoLead(params.loLead) = 255 /\ params.markers = 4095

(***************************************************************************)
(* One call of bin_freqPhaseCodingSingleEntry                              *)
(***************************************************************************)
MaxPatternBytes == 8192
MaxCommentLen == 60

Repeat(c, n) == [k \in 1 .. n |-> c]

\* Calls explored.  Hex patterns: empty, one byte, an odd number of digits,
\* four bytes, the longest accepted and one byte more.  Comments: empty, a
\* short one, the longest accepted and one character more in ASCII, and
\* comments of two-byte characters.
FpcCalls ==
    [onOffState : {0, 1}, numBitsPerSubpulse : {1, 2}, codingType : {0, 1, 2},
     stateMapping : {<<0, 180>>},
     hexPatternString :
        { <<>>, <<"E", "2">>, <<"E", "2", "A">>,
          <<"2", "A", "6", "1", "D", "3", "2", "7">>,
          Repeat("5", 2 * MaxPatternBytes), Repeat("5", 2 * MaxPatternBytes + 2) },
     comment :
        { <<>>, <<"P", "S", "K">>, Repeat("a", MaxCommentLen),
          Repeat("a", MaxCommentLen + 1), <<"E_ACUTE">>,
          Repeat("E_ACUTE", MaxCommentLen \div 2),
          Repeat("E_ACUTE", MaxCommentLen \div 2 + 1) }]

bin_freqPhaseCodingSingleEntry_call ==
    \E a \in FpcCalls :
      LET r == bin_freqPhaseCodingSingleEntry(a.onOffState, a.numBitsPerSubpulse,
                 a.codingType, a.stateMapping, a.hexPatternString, a.comment)
      IN  /\ fpcStatus = "idle"
          /\ fpcArgs' = a
          /\ fpcOut' = r.bytes
          /\ fpcStatus' = IF r.err = "none" THEN "returned" ELSE r.err
          /\ UNCHANGED <<wrapVars, iqVars, pdwVars, bldVars, fpVars, resVars, dlVars>>

FpcInit == InitWrapVars /\ InitIqVars /\ InitPdwVars /\ InitBldVars /\ InitFpVars /\ InitLaterVars

FpcNext == bin_freqPhaseCodingSingleEntry_call

FpcSpec == FpcInit /\ [][FpcNext]_vars

\* Bytes of the pattern of the arguments, and of the comment in UTF-8
FpcPatternBytes == Len(fpcArgs.hexPatternString) \div 2

FpcCommentBytes == Len(Utf8(fpcArgs.comment))

FpcRejected ==
    \/ Len(fpcArgs.hexPatternString) % 2 # 0
    \/ fpcArgs.codingType \notin {0, 1}
    \/ fpcArgs.numBitsPerSubpulse # 1
    \/ FpcPatternBytes > 8192
    \/ FpcCommentBytes > 60

\* C24: the entry builder fails with UXGError and returns nothing for an odd
\* hex length, a codingType other than 0 and 1, numBitsPerSubpulse other than
\* 1, a pattern above 8192 bytes or a comment above 60 UTF-8 bytes; otherwise
\* the entry's commentLength byte is the number of comment bytes emitted and
\* its pattern-length field is 8 times the number of pattern bytes.
C24_EntryValidation ==
    fpcStatus # "idle" =>
      IF FpcRejected
      THEN fpcStatus = "UXGError" /\ fpcOut = <<>>
      ELSE /\ fpcStatus = "returned"
           /\ SubSeq(fpcOut, 5, 8) = to_bytes(PyInt(8 * FpcPatternBytes), 4)
           /\ fpcOut[4] = Len(fpcOut) - 24 - FpcPatternBytes

(***************************************************************************)
(* The chirp-rate code                                                     *)
(***************************************************************************)
ChirpApplied == fpFun = "chirp_closest_m_2_n"

\* The stored exponent and mantissa of the output (e' << 13) | m'
ChirpStoredExponent == chirpOut \div 8192

ChirpStoredMantissa == chirpOut % 8192

\* C25: from (e, m) of closest_m_2_n the chirp code stores (e / 2, m) for an even
\* e and ((e + 1) / 2, floor(m / 2)) for an odd e; m' * 2^(2 e') is m * 2^e when
\* e or m is even and 2^e less when both are odd; the output is
\* (e' << 13) | (m' & 0x1FFF).
C25_HalvedExponent ==
    ChirpApplied =>
      LET e == chirpEM[1]
          m == chirpEM[2]
          e2 == IF e % 2 = 0 THEN e \div 2 ELSE (e + 1) \div 2
          m2 == IF e % 2 = 0 THEN m ELSE m \div 2
      IN  /\ chirpOut = e2 * 8192 + (m2 % 8192)
          /\ ChirpStoredExponent = e2 /\ ChirpStoredMantissa = m2
          \* both sides of m' * 2^(2 e') = m * 2^e divided by 2^e
          /\ m2 * Pow2(2 * e2 - e) = IF e % 2 = 1 /\ m % 2 = 1 THEN m - 1 ELSE m

\* An odd exponent with an odd mantissa: the halved mantissa loses its low bit
C25_Witness ==
    /\ ChirpApplied /\ chirpEM[1] % 2 = 1 /\ chirpEM[2] % 2 = 1
    /\ ChirpStoredMantissa = chirpEM[2] \div 2
    /\ ChirpStoredExponent = (chirpEM[1] + 1) \div 2

\* C26: for every non-negative chirp rate the chirp code is below 2^17 (stored
\* exponent at most 15), so it stays inside bits 12-28 of word 6.
C26_ChirpCodeFits ==
    ChirpApplied => (chirpOut < 131072 /\ ChirpStoredExponent <= 15)

(***************************************************************************)
(* M8190A: resolution and sample rate.  Strings are held as the sequence   *)
(* of their characters; fs and bbfs are in units of 50 MHz, every fs a     *)
(* multiple of 48 units so that fs / intFactor is exact.                   *)
(***************************************************************************)
ResWsp == <<"w", "s", "p">>

ResWpr == <<"w", "p", "r">>

ResIntx(digits) == <<"i", "n", "t", "x">> \o digits

\* The list set_resolution accepts
ResNames ==
    {ResWsp, ResWpr, ResIntx(<<"3">>), ResIntx(<<"1", "2">>),
     ResIntx(<<"2", "4">>), ResIntx(<<"4", "8">>)}

\* str.lower(): the letters A-Z become a-z
Lower(str) ==
    [k \in 1 .. Len(str) |->
        IF Ascii(str[k]) \in 65 .. 90 THEN AsciiTable[Ascii(str[k]) + 32 - 31]
        ELSE str[k]]

\* sub in str
Contains(sub, str) ==
    \E k \in 0 .. (Len(str) - Len(sub)) : SubSeq(str, k + 1, k + Len(sub)) = sub

RECURSIVE int_str(_)
\* int(str) of a string of decimal digits
int_str(str) ==
    IF Len(str) = 1 THEN Ascii(str[1]) - 48
    ELSE 10 * int_str(SubSeq(str, 1, Len(str) - 1)) + (Ascii(str[Len(str)]) - 48)

\* M8190A.check_resolution(): self after the call
check_resolution(self) ==
    IF self.res = ResWpr
    THEN [self EXCEPT !.gran = 48, !.minLen = 240, !.binMult = 8191, !.binShift = 2]
    ELSE IF self.res = ResWsp
    THEN [self EXCEPT !.gran = 64, !.minLen = 320, !.binMult = 2047, !.binShift = 4]
    ELSE IF Contains(<<"i", "n", "t", "x">>, self.res)
    THEN LET \* self.res.split('x')[-1]: what follows the last 'x'
             at == {k \in 1 .. Len(self.res) : self.res[k] = "x"}
             last == CHOOSE k \in at : \A j \in at : j <= k
             f == int_str(SubSeq(self.res, last + 1, Len(self.res)))
         IN  [self EXCEPT !.gran = 24, !.minLen = 120, !.binMult = 16383,
                          !.binShift = 1, !.intFactor = f,
                          !.bbfs = self.fs \div f,
                          !.idleGran = IF f = 3 THEN 8
                                       ELSE IF f = 12 THEN 2
                                       ELSE IF f = 24 \/ f = 48 THEN 1
                                       ELSE self.idleGran]
    \* raise ValueError: not reached, res is one of ResNames
    ELSE self

\* The sample rates the instrument reports
FsValues == {48 * k : k \in 1 .. MaxFs}

\* M8190A.__init__ on an instrument that reports res, clkSrc and fs
M8190A_new(res, clkSrc, fs) ==
    check_resolution([cls |-> "M8190A", res |-> res, clkSrc |-> clkSrc,
                      fs |-> fs, bbfs |-> fs, gran |-> 0, minLen |-> 0,
                      binMult |-> 0, binShift |-> 0, intFactor |-> 1,
                      idleGran |-> 0])

\* M8190A.set_resolution(res) with one of the six names, two of them also in
\* upper case, or a name outside the list.  The instrument answers
\* 'trace1:dwidth?' with the resolution written, or with the one it had when
\* it does not take it.
set_resolution ==
    \E res \in ResNames \cup {<<"W", "S", "P">>, <<"I", "N", "T", "X", "3">>, <<"w", "s", "x">>} :
        IF Lower(res) \notin ResNames
        THEN /\ awgStatus' = "ValueError"
             /\ awgCall' = [fn |-> "set_resolution", arg |-> res, cmd |-> "none"]
             /\ UNCHANGED <<awg>>
             /\ UNCHANGED <<wrapVars, iqVars, pdwVars, bldVars, fpVars, fpcVars, dlVars>>
        ELSE \E reply \in {res, awg.res} :
             /\ awg' = check_resolution([awg EXCEPT !.res = Lower(reply)])
             /\ awgCall' = [fn |-> "set_resolution", arg |-> res, cmd |-> "trace1:dwidth"]
             /\ awgStatus' = "returned"
             /\ UNCHANGED <<wrapVars, iqVars, pdwVars, bldVars, fpVars, fpcVars, dlVars>>

\* M8190A.set_fs(fs) with a float, zero and a negative one included, or an
\* int.  The instrument answers the query with the sample rate it settled on.
set_fs ==
    \E fs \in {[float |-> TRUE, v |-> x] : x \in FsValues \cup {0, -48}}
              \cup {[float |-> FALSE, v |-> 48]} :
        IF ~fs.float \/ fs.v <= 0
        THEN /\ awgStatus' = "ValueError"
             /\ awgCall' = [fn |-> "set_fs", arg |-> fs, cmd |-> "none"]
             /\ UNCHANGED <<awg>>
             /\ UNCHANGED <<wrapVars, iqVars, pdwVars, bldVars, fpVars, fpcVars, dlVars>>
        ELSE \E reply \in FsValues :
             /\ awg' = [awg EXCEPT !.fs = reply, !.bbfs = reply \div awg.intFactor]
             /\ awgCall' =
                  [fn |-> "set_fs", arg |-> fs,
                   cmd |-> IF Contains(<<"i", "n", "t">>, awg.clkSrc)
                           THEN "frequency:raster"
                           ELSE "frequency:raster:external"]
             /\ awgStatus' = "returned"
             /\ UNCHANGED <<wrapVars, iqVars, pdwVars, bldVars, fpVars, fpcVars, dlVars>>

\* An M8190A constructed on an instrument in any resolution, clock source and
\* sample rate
ResInit ==
    /\ InitWrapVars /\ InitIqVars /\ InitPdwVars /\ InitBldVars /\ InitFpVars /\ InitFpcVars
    /\ \E res \in ResNames, clkSrc \in {<<"i", "n", "t">>, <<"e", "x", "t">>}, fs \in FsValues :
          awg = M8190A_new(res, clkSrc, fs)
    /\ awgCall = [fn |-> "__init__", arg |-> <<>>, cmd |-> "none"]
    /\ awgStatus = "returned"
    /\ dlDev = [cls |-> "none"] /\ dlCall = [fn |-> "none"]
    /\ dlLog = <<>> /\ dlOut = <<>> /\ dlStatus = "idle"

ResNext == set_resolution \/ set_fs

ResSpec == ResInit /\ [][ResNext]_vars

\* The interpolation factor of a resolution name
InterpolationFactor(res) ==
    IF res = ResIntx(<<"3">>) THEN 3
    ELSE IF res = ResIntx(<<"1", "2">>) THEN 12
    ELSE IF res = ResIntx(<<"2", "4">>) THEN 24
    ELSE IF res = ResIntx(<<"4", "8">>) THEN 48
    ELSE 1

\* <<gran, minLen, binMult, binShift>> of a resolution name
FormatConstants(res) ==
    IF res = ResWpr THEN <<48, 240, 8191, 2>>
    ELSE IF res = ResWsp THEN <<64, 320, 2047, 4>>
    ELSE <<24, 120, 16383, 1>>

FormatConstantsCurrent ==
    <<awg.gran, awg.minLen, awg.binMult, awg.binShift>> = FormatConstants(awg.res)

\* C29: after any sequence of set_resolution and set_fs calls the format
\* constants are those of the current res, intFactor is the interpolation
\* factor f of the current res (1 for 'wsp' and 'wpr') and bbfs = fs / f.
C29_BasebandRateFollowsResolution ==
    /\ FormatConstantsCurrent
    /\ awg.intFactor = InterpolationFactor(awg.res)
    /\ awg.bbfs * InterpolationFactor(awg.res) = awg.fs

(***************************************************************************)
(* check_wfm and download_wfm.  A float sample k / 8 is held as k, between *)
(* -8 and 8; an array is held as a base sequence and the number of times   *)
(* it is repeated, which np.tile and the element-wise operations keep.     *)
(***************************************************************************)
Wfm(base, reps) == [base |-> base, reps |-> reps]

\* len(wfm)
WfmLen(w) == Len(w.base) * w.reps

\* The elements of the array, one by one
Elements(w) == [k \in 1 .. WfmLen(w) |-> w.base[((k - 1) % Len(w.base)) + 1]]

\* numpy's C cast of an integer to an 8-bit element
Cast8(x) == ((x + 128) % 256) - 128

np_byteswap_none(dtype, x) == x

\* ndarray.byteswap() of one 16-bit element
np_byteswap(dtype, x) ==
    LET u == x % 65536
    IN  Cast(dtype, (u % 256) * 256 + (u \div 256))

wraparound_calc_once(len, g, m) == 1

\* wraparound_calc(length, gran, minLen) as a function.  temp is
\* repeats * length at every test of the loop, so the loop returns the first
\* repeats for which its condition is false; for length >= 1 that is at most
\* gran + minLen.
wraparound_calc(len, g, m) ==
    CHOOSE r \in 1 .. (g + m) :
        /\ ~WhileCond(r * len, g, m)
        /\ \A j \in 1 .. (r - 1) : WhileCond(j * len, g, m)

\* The head of every check_wfm: repeats, the tiled array np.tile(wfm, repeats),
\* its length and the length validations in the order the code makes them.
\* minErr is the exception of the minimum check, hasMax tells whether the
\* class has the maximum check.  With length 0 temp stays 0 in
\* wraparound_calc and its loop cannot end when its condition holds for 0.
TileAndValidate(self, w, minErr, hasMax) ==
    LET validate(r) ==
            LET tiled == [w EXCEPT !.reps = w.reps * r]
                rl == WfmLen(tiled)
                res(status, checks) ==
                    [status |-> status, repeats |-> r, rl |-> rl,
                     checks |-> checks, tiled |-> tiled]
            IN  IF rl < self.minLen THEN res(minErr, <<"min">>)
                ELSE IF hasMax /\ rl > self.maxLen THEN res("AWGError", <<"min", "max">>)
                ELSE IF rl % self.gran # 0
                THEN res("GranularityError",
                         IF hasMax THEN <<"min", "max", "gran">> ELSE <<"min", "gran">>)
                ELSE res("ok", IF hasMax THEN <<"min", "max", "gran">> ELSE <<"min", "gran">>)
    IN  IF WfmLen(w) = 0 /\ WhileCond(0, self.gran, self.minLen)
        THEN [status |-> "never", repeats |-> 0, rl |-> 0, checks |-> <<>>, tiled |-> w]
        ELSE validate(wraparound_calc(WfmLen(w), self.gran, self.minLen))

\* What a check_wfm call gives: how it ended, the repeats, rl, the checks
\* made, the array returned and the object after the call
Checked(v, out, self) ==
    [status |-> v.status, repeats |-> v.repeats, rl |-> v.rl, checks |-> v.checks,
     out |-> IF v.status = "ok" THEN out ELSE Wfm(<<>>, 0), self |-> self]

M8190A_check_wfm_noShift(self, w) ==
    LET scaled(s, v) ==
            Checked(v, Wfm([k \in 1 .. Len(v.tiled.base) |->
                             Cast("int16", TruncDiv(s.binMult * v.tiled.base[k], 8))],
                           v.tiled.reps), s)
        validated(s) == scaled(s, TileAndValidate(s, w, "AWGError", FALSE))
    IN  validated(check_resolution(self))

\* M8190A.check_wfm(wfm).  binMult * s for the float s = b[k] / 8 is cast to
\* int16 by truncation toward zero, then shifted within int16.
M8190A_check_wfm(self, w) ==
    LET scaled(s, v) ==
            Checked(v, Wfm([k \in 1 .. Len(v.tiled.base) |->
                             Cast("int16",
                                  Cast("int16", TruncDiv(s.binMult * v.tiled.base[k], 8))
                                  * Pow2(s.binShift))],
                           v.tiled.reps), s)
        validated(s) == scaled(s, TileAndValidate(s, w, "AWGError", FALSE))
    IN  validated(check_resolution(self))

\* M8195A.check_wfm(wfmData)
M8195A_check_wfm(self, w) ==
    LET scaled(v) ==
            Checked(v, Wfm([k \in 1 .. Len(v.tiled.base) |->
                             Cast8(Cast8(TruncDiv(self.binMult * v.tiled.base[k], 8))
                                   * Pow2(self.binShift))],
                           v.tiled.reps), self)
    IN  scaled(TileAndValidate(self, w, "AWGError", FALSE))

\* M8196A.check_wfm(wfmData)
M8196A_check_wfm(self, w) ==
    LET scaled(v) ==
            Checked(v, Wfm([k \in 1 .. Len(v.tiled.base) |->
                             Cast8(Cast8(TruncDiv(self.binMult * v.tiled.base[k], 8))
                                   * Pow2(self.binShift))],
                           v.tiled.reps), self)
    IN  scaled(TileAndValidate(self, w, "AWGError", TRUE))

\* VSG.check_wfm(wfm, bigEndian)
VSG_check_wfm(self, w, bigEndian) ==
    LET e(x) == Cast("int16", TruncDiv(self.binMult * x, 8))
        scaled(v) ==
            Checked(v, Wfm([k \in 1 .. Len(v.tiled.base) |->
                             IF bigEndian THEN np_byteswap("int16", e(v.tiled.base[k]))
                             ELSE e(v.tiled.base[k])],
                           v.tiled.reps), self)
    IN  scaled(TileAndValidate(self, w, "VSGError", FALSE))

\* VXG.check_wfm(wfm)
VXG_check_wfm(self, w) ==
    LET scaled(v) ==
            Checked(v, Wfm([k \in 1 .. Len(v.tiled.base) |->
                             np_byteswap("int16",
                                         Cast("int16",
                                              TruncDiv(self.binMult * v.tiled.base[k], 8)))],
                           v.tiled.reps), self)
    IN  scaled(TileAndValidate(self, w, "VSGError", FALSE))

\* VectorUXG.check_wfm(wfm, bigEndian).  The C cast of a negative float to
\* uint16 is undefined: negCast is what the build makes of it, the value
\* modulo 2^16 or zero.
VectorUXG_check_wfm(self, w, bigEndian, negCast) ==
    LET cast(t) == IF t >= 0 THEN t ELSE IF negCast = "wrap" THEN t % 65536 ELSE 0
        e(x) == cast(TruncDiv(self.binMult * x, 8))
        scaled(v) ==
            Checked(v, Wfm([k \in 1 .. Len(v.tiled.base) |->
                             IF bigEndian THEN np_byteswap("uint16", e(v.tiled.base[k]))
                             ELSE e(v.tiled.base[k])],
                           v.tiled.reps), self)
    IN  scaled(TileAndValidate(self, w, "VSGError", FALSE))

\* The objects download_wfm and check_wfm are called on, as their __init__
\* leaves them: an M8190A in each resolution, an M8195A, an M8196A, a VXG, a
\* VSG on an M9381A and on an N5182B (gran 2 unless 'M938' is in the id), and
\* a VectorUXG with the quantum and the minimum length its instrument reports
DlDevices ==
    {M8190A_new(res, <<"i", "n", "t">>, 48) : res \in ResNames}
    \cup {[cls |-> "M8195A", gran |-> 256, minLen |-> 1280, binMult |-> 127, binShift |-> 0],
          [cls |-> "M8196A", gran |-> 128, minLen |-> 128, maxLen |-> 524288,
           binMult |-> 127, binShift |-> 0],
          [cls |-> "VXG", arbState |-> "1", minLen |-> 512, binMult |-> 32767, gran |-> 8]}
    \cup {[cls |-> "VSG", instId |-> id, arbState |-> "1", minLen |-> 60,
           binMult |-> 32767,
           gran |-> IF ~Contains(<<"M", "9", "3", "8">>, id) THEN 2 ELSE 4] :
            id \in {<<"M", "9", "3", "8", "1", "A">>, <<"N", "5", "1", "8", "2", "B">>}}
    \cup {[cls |-> "VectorUXG", arbState |-> "1", gran |-> g, minLen |-> m,
           binMult |-> 32767] : g \in {2, 8}, m \in {6, 60}}

(***************************************************************************)
(* Commands sent to the instrument.  seg and len are the segment and the   *)
(* length formatted into the command, len with its type: f'{length}'       *)
(* differs for an int and a float.                                         *)
(***************************************************************************)
\* self.write(cmd)
Write(cmd) ==
    [op |-> "write", cmd |-> cmd, seg |-> 0, len |-> [t |-> "none", v |-> 0], data |-> <<>>]

\* self.query(cmd)
Query(cmd) == [Write(cmd) EXCEPT !.op = "query"]

\* What a download_wfm call gives: how it ended, the commands sent, the value
\* returned and the object after the call
Downloaded(status, log, ret, self) ==
    [status |-> status, log |-> log, ret |-> ret, self |-> self]

\* trace:def, the binary block of trace:data and trace:name of one segment
SegmentCommands(segment, len, data) ==
    <<[Write("trace:def") EXCEPT !.seg = segment, !.len = len],
      [Write("trace:data") EXCEPT !.op = "binblockwrite", !.seg = segment, !.data = data],
      [Write("trace:name") EXCEPT !.seg = segment]>>

\* M8190A.download_wfm(wfmData, wfmFormat=..., sampleMkr=..., syncMkr=...).
\* np.complex is missing (AttributeError) or the builtin complex, which only
\* the dtype complex128 equals; the reply to 'trace:catalog?' is held as the
\* sequence of its fields.
M8190A_download_wfm(self, a, env) ==
    LET stop == <<Write("abort"), Query("*opc?")>>
        segment == env.catalog[Len(env.catalog) - 1] + 1
        send(len, data) ==
            stop \o <<Query("trace:catalog?")>> \o SegmentCommands(segment, len, data)
        \* if mkr: i += mkr on an int16 array
        AddMarker(w, mkr) ==
            IF mkr # 0
            THEN [w EXCEPT !.base = [k \in 1 .. Len(w.base) |-> Cast("int16", w.base[k] + mkr)]]
            ELSE w
        sendIq(iq, s) ==
            IF iq.err # "none" THEN Downloaded(iq.err, stop, 0, s)
            ELSE Downloaded("returned",
                            send([t |-> "float", v |-> Len(iq.iq) \div 2], iq.iq),
                            segment, s)
        checkedIq(ci, cq) ==
            IF ci.status # "ok" THEN Downloaded(ci.status, stop, 0, ci.self)
            ELSE IF cq.status # "ok" THEN Downloaded(cq.status, stop, 0, cq.self)
            ELSE sendIq(iq_wfm_combiner("M8190A",
                                        Elements(AddMarker(ci.out, a.sampleMkr.v)),
                                        Elements(AddMarker(cq.out, a.syncMkr.v))),
                        cq.self)
        checkedI(ci) == checkedIq(ci, M8190A_check_wfm(ci.self, a.wfmData.im))
        checkedReal(ci) ==
            IF ci.status # "ok" THEN Downloaded(ci.status, stop, 0, ci.self)
            ELSE Downloaded("returned",
                            send([t |-> "int", v |-> WfmLen(ci.out)], Elements(ci.out)),
                            segment, ci.self)
        formatted(fmt) ==
            IF fmt = <<"i", "q">>
            THEN IF ~env.npComplex THEN Downloaded("AttributeError", stop, 0, self)
                 ELSE IF a.wfmData.dtype # "complex128"
                 THEN Downloaded("TypeError", stop, 0, self)
                 ELSE checkedI(M8190A_check_wfm(self, a.wfmData.re))
            ELSE IF fmt = <<"r", "e", "a", "l">>
            THEN checkedReal(M8190A_check_wfm(self, a.wfmData.re))
            ELSE Downloaded("SockInstError", stop, 0, self)
    IN  IF ~a.sampleMkr.int \/ ~a.syncMkr.int
        THEN Downloaded("TypeError", <<>>, 0, self)
        ELSE formatted(Lower(a.wfmFormat))

\* M8195A.download_wfm(wfmData)
M8195A_download_wfm(self, a, env) ==
    LET stop == <<Write("abort")>>
        len == WfmLen(a.wfmData.re)
        segment == env.catalog[Len(env.catalog) - 1] + 1
        checked(c) ==
            IF c.status # "ok" THEN Downloaded(c.status, stop, 0, self)
            ELSE Downloaded("returned",
                            stop \o <<Query("trace:catalog?")>>
                                 \o SegmentCommands(segment, [t |-> "int", v |-> len],
                                                    Elements(c.out)),
                            segment, self)
    IN  checked(M8195A_check_wfm(self, a.wfmData.re))

\* M8196A.download_wfm(wfmData); clear_all_wfm() writes 'abort' and
\* 'trace<ch>:del:all' for ch = 1 .. 4
M8196A_download_wfm(self, a, env) ==
    LET stop == <<Write("abort"), Write("abort")>>
                \o [ch \in 1 .. 4 |-> [Write("trace:del:all") EXCEPT !.seg = ch]]
        segment == 1
        checked(c) ==
            IF c.status # "ok" THEN Downloaded(c.status, stop, 0, self)
            ELSE Downloaded("returned",
                            stop \o SegmentCommands(segment,
                                                    [t |-> "int", v |-> WfmLen(c.out)],
                                                    Elements(c.out)),
                            segment, self)
    IN  checked(M8196A_check_wfm(self, a.wfmData.re))

\* VSG.download_wfm(wfmData).  The reply to 'radio:arb:state?' is env.arbState;
\* err_check() raises SockInstError or not (env.errCheck), and the code goes
\* on to the same commands either way.
VSG_download_wfm(self, a, env) ==
    LET stop == <<Write("radio:arb:state off"), Write("modulation:state off"),
                  Query("radio:arb:state?")>>
        s == [self EXCEPT !.arbState = env.arbState]
        delete == <<Write("memory:delete"), Query("*opc?"), Write("mmemory:delete"),
                    Query("*opc?"), Query("err_check")>>
        block(iq) == [Write("mmemory:data") EXCEPT !.op = "binblockwrite", !.data = iq.iq]
        send(iq, isM938) ==
            IF iq.err # "none" THEN Downloaded(iq.err, stop, 0, s)
            ELSE IF isM938
            THEN Downloaded("returned",
                            stop \o delete \o <<block(iq), Write("memory:copy")>>, 0, s)
            ELSE Downloaded("returned",
                            stop \o <<block(iq), Write("radio:arb:waveform")>>, 0, s)
        checked(ci, cq, isM938) ==
            IF ci.status # "ok" THEN Downloaded(ci.status, stop, 0, s)
            ELSE IF cq.status # "ok" THEN Downloaded(cq.status, stop, 0, s)
            ELSE send(iq_wfm_combiner("VSG", Elements(ci.out), Elements(cq.out)), isM938)
        \* bigEndian is False only for an instrument with 'M938' in its id
        identified(isM938) ==
            checked(VSG_check_wfm(s, a.wfmData.re, ~isM938),
                    VSG_check_wfm(s, a.wfmData.im, ~isM938), isM938)
    IN  IF ~env.npComplex THEN Downloaded("AttributeError", stop, 0, s)
        ELSE IF a.wfmData.dtype # "complex128" THEN Downloaded("TypeError", stop, 0, s)
        ELSE identified(Contains(<<"M", "9", "3", "8">>, self.instId))

\* VXG.download_wfm(wfmData)
VXG_download_wfm(self, a, env) ==
    LET stop == <<Write("radio:arb:state off"), Write("rf1:output:modulation off"),
                  Query("radio:arb:state?")>>
        s == [self EXCEPT !.arbState = env.arbState]
        delete == <<Write("mmemory:delete"), Query("*opc?"), Query("err_check")>>
        send(iq) ==
            IF iq.err # "none" THEN Downloaded(iq.err, stop, 0, s)
            ELSE Downloaded("returned",
                            stop \o delete
                                 \o <<[Write("mmemory:data") EXCEPT !.op = "binblockwrite",
                                                                    !.data = iq.iq],
                                      Write("memory:copy"), Write("source:signal:waveform")>>,
                            0, s)
        checked(ci, cq) ==
            IF ci.status # "ok" THEN Downloaded(ci.status, stop, 0, s)
            ELSE IF cq.status # "ok" THEN Downloaded(cq.status, stop, 0, s)
            ELSE send(iq_wfm_combiner("VXG", Elements(ci.out), Elements(cq.out)))
    IN  IF ~env.npComplex THEN Downloaded("AttributeError", stop, 0, s)
        ELSE IF a.wfmData.dtype # "complex128" THEN Downloaded("TypeError", stop, 0, s)
        ELSE checked(VXG_check_wfm(s, a.wfmData.re), VXG_check_wfm(s, a.wfmData.im))

VectorUXG_download_wfm_blockFirst(self, a, env) ==
    LET s == [self EXCEPT !.arbState = env.arbState]
        block(iq) == [Write("memory:data") EXCEPT !.op = "binblockwrite", !.data = iq.iq]
        send(iq) ==
            IF iq.err # "none" THEN Downloaded(iq.err, <<>>, 0, self)
            ELSE Downloaded("returned",
                            <<block(iq), Write("radio:arb:state off"), Query("radio:arb:state?")>>,
                            0, s)
        checked(ci, cq) ==
            IF ci.status # "ok" THEN Downloaded(ci.status, <<>>, 0, self)
            ELSE IF cq.status # "ok" THEN Downloaded(cq.status, <<>>, 0, self)
            ELSE send(iq_wfm_combiner("VectorUXG", Elements(ci.out), Elements(cq.out)))
    IN  IF ~env.npComplex THEN Downloaded("AttributeError", <<>>, 0, self)
        ELSE IF a.wfmData.dtype # "complex128" THEN Downloaded("TypeError", <<>>, 0, self)
        ELSE checked(VectorUXG_check_wfm(self, a.wfmData.re, TRUE, env.negCast),
                     VectorUXG_check_wfm(self, a.wfmData.im, TRUE, env.negCast))

\* VectorUXG.download_wfm(wfmData)
VectorUXG_download_wfm(self, a, env) ==
    LET s == [self EXCEPT !.arbState = env.arbState]
        block(iq) == [Write("memory:data") EXCEPT !.op = "binblockwrite", !.data = iq.iq]
        send(iq) ==
            IF iq.err # "none" THEN Downloaded(iq.err, <<>>, 0, self)
            ELSE Downloaded("returned",
                            <<Write("radio:arb:state off"), Query("radio:arb:state?"), block(iq)>>,
                            0, s)
        checked(ci, cq) ==
            IF ci.status # "ok" THEN Downloaded(ci.status, <<>>, 0, self)
            ELSE IF cq.status # "ok" THEN Downloaded(cq.status, <<>>, 0, self)
            ELSE send(iq_wfm_combiner("VectorUXG", Elements(ci.out), Elements(cq.out)))
    IN  IF ~env.npComplex THEN Downloaded("AttributeError", <<>>, 0, self)
        ELSE IF a.wfmData.dtype # "complex128" THEN Downloaded("TypeError", <<>>, 0, self)
        ELSE checked(VectorUXG_check_wfm(self, a.wfmData.re, TRUE, env.negCast),
                     VectorUXG_check_wfm(self, a.wfmData.im, TRUE, env.negCast))

\* self.download_wfm(...): the method of the object's class
download_wfm(self, a, env) ==
    CASE self.cls = "M8190A" -> M8190A_download_wfm(self, a, env)
      [] self.cls = "M8195A" -> M8195A_download_wfm(self, a, env)
      [] self.cls = "M8196A" -> M8196A_download_wfm(self, a, env)
      [] self.cls = "VSG" -> VSG_download_wfm(self, a, env)
      [] self.cls = "VXG" -> VXG_download_wfm(self, a, env)
      [] self.cls = "VectorUXG" -> VectorUXG_download_wfm(self, a, env)

\* self.check_wfm(...): the method of the object's class
check_wfm(self, w, bigEndian, negCast) ==
    CASE self.cls = "M8190A" -> M8190A_check_wfm(self, w)
      [] self.cls = "M8195A" -> M8195A_check_wfm(self, w)
      [] self.cls = "M8196A" -> M8196A_check_wfm(self, w)
      [] self.cls = "VSG" -> VSG_check_wfm(self, w, bigEndian)
      [] self.cls = "VXG" -> VXG_check_wfm(self, w)
      [] self.cls = "VectorUXG" -> VectorUXG_check_wfm(self, w, bigEndian, negCast)

(***************************************************************************)
(* One call of download_wfm or check_wfm                                   *)
(***************************************************************************)
\* Real arrays of the samples -1, -3/8, 0, 5/8 and 1: the short ones and one
\* exactly as long as the minimum of the M8195A
ShortWfms ==
    {Wfm(b, 1) : b \in SeqsUpTo({-8, -3, 0, 5, 8}, MaxWfmLen)} \cup {Wfm(<<5>>, 1280)}

\* Real arrays past the maximum of the M8196A, as given or once repeated
LongWfms == {Wfm(<<-8>>, 524289), Wfm(<<8, -3>>, 262208)}

\* Complex arrays of the samples 1 - j, -3/8 + 5/8 j and j, complex128, and
\* one complex64
ComplexData ==
    {[dtype |-> "complex128",
      re |-> Wfm([k \in 1 .. Len(b) |-> b[k][1]], 1),
      im |-> Wfm([k \in 1 .. Len(b) |-> b[k][2]], 1)] :
        b \in SeqsUpTo({<<8, -8>>, <<-3, 5>>, <<0, 8>>}, MaxWfmLen)}
    \cup {[dtype |-> "complex64", re |-> Wfm(<<8>>, 1), im |-> Wfm(<<-8>>, 1)]}

\* The arguments of download_wfm of each class; wfmFormat and the markers
\* (off, on, and a float) are arguments of the M8190A only
DlArgs(cls) ==
    LET arg(wfmData, wfmFormat, sampleMkr, syncMkr) ==
            [wfmData |-> wfmData, wfmFormat |-> wfmFormat,
             sampleMkr |-> sampleMkr, syncMkr |-> syncMkr]
        Marker(n) == [int |-> TRUE, v |-> n]
        RealArray(w) == [dtype |-> "float64", re |-> w, im |-> Wfm(<<>>, 1)]
        RealData == {RealArray(w) : w \in ShortWfms}
    IN  IF cls = "M8190A"
        THEN {arg(wd, <<"i", "q">>, mk[1], mk[2]) :
                wd \in ComplexData,
                mk \in {<<Marker(0), Marker(0)>>, <<Marker(1), Marker(0)>>,
                        <<Marker(0), Marker(1)>>, <<[int |-> FALSE, v |-> 1], Marker(0)>>}}
             \cup {arg(wd, f, Marker(0), Marker(0)) :
                     wd \in RealData, f \in {<<"r", "e", "a", "l">>, <<"R", "e", "a", "l">>}}
             \cup {arg(wd, <<"i", "q">>, Marker(0), Marker(0)) : wd \in RealData}
             \cup {arg(RealArray(Wfm(<<8>>, 1)), <<"i">>, Marker(0), Marker(0))}
        ELSE IF cls \in {"VSG", "VXG", "VectorUXG"}
        THEN {arg(wd, <<"i", "q">>, Marker(0), Marker(0)) : wd \in ComplexData \cup RealData}
        ELSE {arg(wd, <<"r", "e", "a", "l">>, Marker(0), Marker(0)) :
                wd \in RealData \cup (IF cls = "M8196A"
                                      THEN {RealArray(w) : w \in LongWfms} ELSE {})}

\* What the call meets outside the program: whether numpy still has
\* np.complex, the reply to 'trace:catalog?' (an empty memory, or segments 1
\* and 3), the reply to 'radio:arb:state?', whether err_check raises, and the
\* cast of a negative float to uint16
DlEnvs(cls) ==
    {[npComplex |-> nc, catalog |-> cat, arbState |-> "0", errCheck |-> ec, negCast |-> ng] :
        nc \in (IF cls \in {"M8195A", "M8196A"} THEN {TRUE} ELSE BOOLEAN),
        cat \in (IF cls \in {"M8190A", "M8195A"} THEN {<<0, 0>>, <<1, 240, 3, 480>>}
                 ELSE {<<0, 0>>}),
        ec \in (IF cls \in {"VSG", "VXG"} THEN {"none", "SockInstError"} ELSE {"none"}),
        ng \in (IF cls = "VectorUXG" THEN {"wrap", "zero"} ELSE {"wrap"})}

download_wfm_call ==
    /\ dlStatus = "idle"
    /\ \E self \in DlDevices :
         \E a \in DlArgs(self.cls), env \in DlEnvs(self.cls) :
            LET done(r) ==
                    /\ dlCall' = [fn |-> "download_wfm", self |-> self, args |-> a,
                                  env |-> env]
                    /\ dlDev' = r.self
                    /\ dlLog' = r.log
                    /\ dlOut' = r.ret
                    /\ dlStatus' = r.status
            IN  done(download_wfm(self, a, env))
    /\ UNCHANGED <<wrapVars, iqVars, pdwVars, bldVars, fpVars, fpcVars, resVars>>

check_wfm_call ==
    /\ dlStatus = "idle"
    /\ \E self \in DlDevices :
         \E w \in ShortWfms \cup LongWfms \cup {Wfm(<<8, -3>>, 262144)},
            be \in (IF self.cls \in {"VSG", "VectorUXG"} THEN BOOLEAN ELSE {TRUE}),
            ng \in (IF self.cls = "VectorUXG" THEN {"wrap", "zero"} ELSE {"wrap"}) :
            LET done(r) ==
                    /\ dlCall' = [fn |-> "check_wfm", self |-> self,
                                  args |-> [wfm |-> w, bigEndian |-> be],
                                  env |-> [negCast |-> ng]]
                    /\ dlDev' = r.self
                    /\ dlLog' = <<>>
                    /\ dlOut' = [repeats |-> r.repeats, rl |-> r.rl, checks |-> r.checks,
                                 out |-> r.out]
                    /\ dlStatus' = IF r.status = "ok" THEN "returned" ELSE r.status
            IN  done(check_wfm(self, w, be, ng))
    /\ UNCHANGED <<wrapVars, iqVars, pdwVars, bldVars, fpVars, fpcVars, resVars>>

DlInit == InitWrapVars /\ InitIqVars /\ InitPdwVars /\ InitBldVars /\ InitFpVars /\ InitLaterVars

DlNext == download_wfm_call \/ check_wfm_call

DlSpec == DlInit /\ [][DlNext]_vars

(***************************************************************************)
(* Claims about check_wfm and download_wfm                                 *)
(***************************************************************************)
DownloadReturned == dlCall.fn = "download_wfm" /\ dlStatus = "returned"

CheckCalled == dlCall.fn = "check_wfm"

\* Positions of the binary blocks among the commands sent
BlockAt == {k \in 1 .. Len(dlLog) : dlLog[k].op = "binblockwrite"}

\* The data of the binary block of a download that returned
BlockData == dlLog[CHOOSE k \in BlockAt : TRUE].data

\* Sample k of an input array repeated to any length
Tiled(w, k) == w.base[((k - 1) % Len(w.base)) + 1]

LowByte(x) == (x % 65536) % 256

HighByte(x) == (x % 65536) \div 256

\* e is the 16-bit element x with its two bytes exchanged
ByteReversed(e, x) ==
    /\ e \in -32768 .. 32767
    /\ LowByte(e) = HighByte(x) /\ HighByte(e) = LowByte(x)

\* trunc(32767 * s) for the sample s = k8 / 8
Scaled16(k8) == TruncDiv(32767 * k8, 8)

SwapsBytes ==
    \/ dlDev.cls = "VXG"
    \/ dlDev.cls = "VSG" /\ ~Contains(<<"M", "9", "3", "8">>, dlDev.instId)

\* C21: in the buffer a VSG without 'M938' in its id or a VXG downloads, element
\* 2k-1 is the byte-reversed scaled I sample k and element 2k the byte-reversed
\* scaled Q sample k (order i0, q0, i1, q1, ...); a VSG with 'M938' in its id
\* downloads the scaled samples in the same order, not byte-swapped.
C21_SwapKeepsInterleaveOrder ==
    (DownloadReturned /\ dlDev.cls \in {"VSG", "VXG"}) =>
        LET data == BlockData
            re == dlCall.args.wfmData.re
            im == dlCall.args.wfmData.im
        IN  /\ Len(data) % 2 = 0
            /\ \A k \in 1 .. (Len(data) \div 2) :
                 IF SwapsBytes
                 THEN /\ ByteReversed(data[2 * k - 1], Scaled16(Tiled(re, k)))
                      /\ ByteReversed(data[2 * k], Scaled16(Tiled(im, k)))
                 ELSE /\ data[2 * k - 1] = Scaled16(Tiled(re, k))
                      /\ data[2 * k] = Scaled16(Tiled(im, k))

\* A byte-swapping download whose first two elements differ from the scaled
\* samples they hold
C21_Witness ==
    /\ DownloadReturned /\ SwapsBytes /\ dlDev.cls = "VSG"
    /\ Len(BlockData) >= 60
    /\ BlockData[1] # Scaled16(Tiled(dlCall.args.wfmData.re, 1))
    /\ BlockData[2] # Scaled16(Tiled(dlCall.args.wfmData.im, 1))

\* C22: M8190A.check_wfm returns trunc(binMult * s) << binShift for every sample
\* s of the tiled waveform, with (binMult, binShift) = (8191, 2) for 'wpr',
\* (2047, 4) for 'wsp' and (16383, 1) for 'intx*'; for s in [-1, 1] the result is
\* within int16 and its low binShift bits are zero.
C22_ScaledAndShifted ==
    (CheckCalled /\ dlStatus = "returned" /\ dlDev.cls = "M8190A") =>
        LET c == FormatConstants(dlDev.res)
            in == dlCall.args.wfm
            out == dlOut.out
        IN  /\ WfmLen(out) = dlOut.rl
            /\ Len(out.base) = Len(in.base)
            /\ \A k \in 1 .. Len(out.base) :
                 /\ out.base[k] = TruncDiv(c[3] * in.base[k], 8) * Pow2(c[4])
                 /\ out.base[k] \in -32768 .. 32767
                 /\ out.base[k] % Pow2(c[4]) = 0

\* A negative sample whose product with binMult is not an integer, in 'wsp'
C22_Witness ==
    /\ CheckCalled /\ dlStatus = "returned" /\ dlDev.cls = "M8190A"
    /\ dlDev.res = ResWsp
    /\ \E k \in 1 .. Len(dlOut.out.base) :
         /\ dlCall.args.wfm.base[k] = -3
         /\ dlOut.out.base[k] = -767 * 16

StopCommands == {"abort", "radio:arb:state off"}

DownloadFailed ==
    dlStatus \in {"TypeError", "AttributeError", "AWGError", "VSGError",
                  "GranularityError", "ValueError", "never"}

\* C27: in every download_wfm the first command sent is 'abort' or
\* 'radio:arb:state off', the binary block comes after it, and no binary block
\* is written when the type check or check_wfm fails.
C27_StopBeforeBlock ==
    dlCall.fn = "download_wfm" =>
        /\ Len(dlLog) > 0 => (dlLog[1].op = "write" /\ dlLog[1].cmd \in StopCommands)
        /\ \A k \in BlockAt : k > 1
        /\ DownloadFailed => BlockAt = {}
        /\ dlStatus = "returned" => BlockAt # {}

\* A VectorUXG download that returned, and so stopped playback after its checks
C27_Witness ==
    /\ DownloadReturned /\ dlDev.cls = "VectorUXG"
    /\ dlLog[1].cmd = "radio:arb:state off"
    /\ BlockAt = {Len(dlLog)}

\* C28: for a non-empty input every check_wfm tiles to rl = repeats * len(input)
\* with repeats the least count that meets gran and minLen, so rl >= minLen and
\* rl % gran = 0 and neither of these checks fails; only the maximum check of the
\* M8196A can fail, made after the minimum check and before the granularity check.
C28_OnlyMaximumCanFail ==
    (CheckCalled /\ WfmLen(dlCall.args.wfm) >= 1) =>
        LET n == WfmLen(dlCall.args.wfm)
            o == dlOut
        IN  /\ o.rl = o.repeats * n
            /\ Satisfies(o.repeats, n, dlDev.gran, dlDev.minLen)
            /\ \A r \in 1 .. (o.repeats - 1) : ~Satisfies(r, n, dlDev.gran, dlDev.minLen)
            /\ o.rl >= dlDev.minLen /\ o.rl % dlDev.gran = 0
            /\ IF dlDev.cls = "M8196A"
               THEN \/ dlStatus = "returned" /\ o.rl <= 524288
                                             /\ o.checks = <<"min", "max", "gran">>
                    \/ dlStatus = "AWGError" /\ o.rl > 524288
                                             /\ o.checks = <<"min", "max">>
               ELSE dlStatus = "returned" /\ o.checks = <<"min", "gran">>

\* An M8196A input that passes the minimum check and fails the maximum check
C28_Witness ==
    /\ CheckCalled /\ dlDev.cls = "M8196A" /\ dlStatus = "AWGError"
    /\ dlOut.repeats > 1 /\ dlOut.rl > 524288
    /\ dlOut.checks = <<"min", "max">>

AwgClasses == {"M8190A", "M8195A", "M8196A"}

\* Samples in a block: I/Q pairs for the 'iq' format of the M8190A
SamplesIn(data) ==
    IF dlDev.cls = "M8190A" /\ Lower(dlCall.args.wfmFormat) = <<"i", "q">>
    THEN Len(data) \div 2
    ELSE Len(data)

\* C30: in the download_wfm of the M8190A, M8195A and M8196A the length declared
\* by 'trace:def' equals the number of samples in the block of the 'trace:data'
\* that follows it, for every input length.
C30_DeclaredLengthIsBlockLength ==
    (DownloadReturned /\ dlDev.cls \in AwgClasses) =>
        \A k \in 1 .. (Len(dlLog) - 1) :
            (dlLog[k].cmd = "trace:def" /\ dlLog[k + 1].cmd = "trace:data") =>
                /\ dlLog[k].seg = dlLog[k + 1].seg
                /\ dlLog[k].len.v = SamplesIn(dlLog[k + 1].data)

=============================================================================
